---- MODULE Spec2Model ----
(***************************************************************************)
(* Model of the crawl traversal engine of master-crawl:                    *)
(*   - the Playwright crawler (normalizeUrl, sameDomain, crawlPage,        *)
(*     crawlWebsite) that the queue worker runs,                           *)
(*   - the Puppeteer crawler (crawlWebsite, normalizeUrl),                 *)
(*   - the DELETE /api/crawl/:jobId handler.                               *)
(*                                                                         *)
(* A JavaScript string is a sequence of tokens: the first token of a URL   *)
(* is its scheme and host ("https://a.com"), the others are "/", "?", "#"  *)
(* and names.  Parsing and serialising are modelled as the WHATWG URL      *)
(* class does them on these tokens.                                        *)
(***************************************************************************)
EXTENDS Integers, Sequences, FiniteSets, TLC

\* ------------------------------------------------------------------------
\* Strings
\* ------------------------------------------------------------------------

\* the null / empty result (falsy in JavaScript)
Null == << >>

\* position of the first token t in s, 0 when absent
IndexOf(s, t) ==
  IF \E i \in 1..Len(s) : s[i] = t
  THEN CHOOSE i \in 1..Len(s) : s[i] = t /\ \A j \in 1..(i-1) : s[j] # t
  ELSE 0

\* s.includes(p)
Includes(s, p) ==
  \E i \in 0..(Len(s) - Len(p)) : SubSeq(s, i+1, i+Len(p)) = p

\* s.startsWith(p)
StartsWith(s, p) ==
  Len(s) >= Len(p) /\ SubSeq(s, 1, Len(p)) = p

\* the SPA route marker '#/'
HashSlash == <<"#", "/">>

\* ------------------------------------------------------------------------
\* URL (the WHATWG URL class of Node)
\* ------------------------------------------------------------------------

\* scheme-and-host tokens and the hostname each one parses to
Hostname ==
  [o \in {"https://a.com", "https://www.a.com", "https://b.com"} |->
     CASE o = "https://a.com" -> "a.com"
       [] o = "https://www.a.com" -> "www.a.com"
       [] o = "https://b.com" -> "b.com"]

InvalidUrl ==
  [ok |-> FALSE, origin |-> "", path |-> << >>, hasQuery |-> FALSE,
   query |-> << >>, hasFragment |-> FALSE, fragment |-> << >>]

\* new URL(s): fails on a string that does not start with a scheme and host
ParseUrl(s) ==
  IF Len(s) = 0 THEN InvalidUrl
  ELSE IF s[1] \notin DOMAIN Hostname THEN InvalidUrl
  ELSE
    LET rest == Tail(s)
        h == IndexOf(rest, "#")
        beforeHash == IF h = 0 THEN rest ELSE SubSeq(rest, 1, h-1)
        q == IndexOf(beforeHash, "?")
        rawPath == IF q = 0 THEN beforeHash ELSE SubSeq(beforeHash, 1, q-1)
    IN IF rawPath # << >> /\ rawPath[1] # "/" THEN InvalidUrl
       ELSE
         [ok |-> TRUE,
          origin |-> s[1],
          path |-> IF rawPath = << >> THEN <<"/">> ELSE rawPath,
          hasQuery |-> q # 0,
          query |-> IF q = 0 THEN << >>
                    ELSE SubSeq(beforeHash, q+1, Len(beforeHash)),
          hasFragment |-> h # 0,
          fragment |-> IF h = 0 THEN << >>
                       ELSE SubSeq(rest, h+1, Len(rest))]

\* u.href
Href(u) ==
  <<u.origin>> \o u.path
    \o (IF u.hasQuery THEN <<"?">> \o u.query ELSE << >>)
    \o (IF u.hasFragment THEN <<"#">> \o u.fragment ELSE << >>)

\* u.hash: '' for a missing or empty fragment, else '#' + fragment
HashOf(u) ==
  IF u.hasFragment /\ u.fragment # << >> THEN <<"#">> \o u.fragment ELSE << >>

\* u.hash = ''
ClearHash(u) == [u EXCEPT !.hasFragment = FALSE, !.fragment = << >>]

\* u.search = ''
ClearSearch(u) == [u EXCEPT !.hasQuery = FALSE, !.query = << >>]

\* s.replace(/\/$/, '')
StripTrailingSlash(s) ==
  IF Len(s) > 0 /\ s[Len(s)] = "/" THEN SubSeq(s, 1, Len(s)-1) ELSE s

\* ------------------------------------------------------------------------
\* Playwright crawler: normalizeUrl, sameDomain
\* ------------------------------------------------------------------------

\* normalizeUrl without u.search = ''
normalizeUrl_KeepSearch(url, preserveHash) ==
  LET u == ParseUrl(url)
  IN IF ~u.ok THEN Null
     ELSE
       LET u1 == IF ~preserveHash \/ HashOf(u) = << >>
                      \/ ~StartsWith(HashOf(u), HashSlash)
                 THEN ClearHash(u) ELSE u
       IN StripTrailingSlash(Href(u1))

normalizeUrl(url, preserveHash) ==
  LET u == ParseUrl(url)
  IN IF ~u.ok THEN Null
     ELSE
       LET u1 == IF ~preserveHash \/ HashOf(u) = << >>
                      \/ ~StartsWith(HashOf(u), HashSlash)
                 THEN ClearHash(u) ELSE u
           u2 == ClearSearch(u1)
       IN StripTrailingSlash(Href(u2))

\* sameDomain that lets every parsable URL pass
sameDomain_Any(a, b) == ParseUrl(a).ok /\ ParseUrl(b).ok

sameDomain(a, b) ==
  IF ParseUrl(a).ok /\ ParseUrl(b).ok
  THEN Hostname[ParseUrl(a).origin] = Hostname[ParseUrl(b).origin]
  ELSE FALSE

\* ------------------------------------------------------------------------
\* Puppeteer crawler: normalizeUrl
\* ------------------------------------------------------------------------

\* s.split(t)[0]
BeforeFirst(s, t) ==
  IF IndexOf(s, t) = 0 THEN s ELSE SubSeq(s, 1, IndexOf(s, t) - 1)

\* s.split(t)[1], for s that includes t
SecondPart(s, t) ==
  LET r == SubSeq(s, IndexOf(s, t) + 1, Len(s)) IN BeforeFirst(r, t)

pupNormalizeUrl(url) ==
  LET u == ParseUrl(url)
  IN IF u.ok THEN Href(ClearSearch(u))
     ELSE IF Includes(url, <<"#">>)
          THEN BeforeFirst(BeforeFirst(url, "#"), "?")
                 \o (IF SecondPart(url, "#") # << >>
                     THEN <<"#">> \o SecondPart(url, "#") ELSE << >>)
          ELSE BeforeFirst(url, "?")

\* ------------------------------------------------------------------------
\* The crawled website (the environment): what a page load returns
\* ------------------------------------------------------------------------

A == "https://a.com"

\* the page a URL addresses on the site: the SPA route of a '#/' fragment,
\* else the last path segment ("root" for the path '/'), "none" off-site
PageName(url) ==
  LET u == ParseUrl(url)
  IN IF ~u.ok THEN "none"
     ELSE IF Hostname[u.origin] = "b.com" THEN "none"
     ELSE
       LET segs == SelectSeq(u.path, LAMBDA t : t # "/")
       IN IF StartsWith(u.fragment, <<"/">>) /\ Len(u.fragment) >= 2
          THEN u.fragment[2]
          ELSE IF segs = << >> THEN "root" ELSE segs[Len(segs)]

\* the hrefs of the a[href] elements of a page, already resolved by the
\* browser; "nav" has query strings, anchors, a trailing slash, an off-site
\* link, an unparsable href and a hash route; "menu" repeats links
SiteLinks(s, url) ==
  LET n == PageName(url)
  IN CASE s = "nav" /\ n = "root" ->
            << <<A, "/", "a">>, <<A, "/", "a", "?", "q">>, <<A, "/", "b", "/">>,
               <<A, "/", "#", "sec">>, <<"https://b.com", "/", "x">>,
               <<"bad">> >>
       [] s = "nav" /\ n = "a" ->
            << <<A, "/", "b">>, <<A, "/", "c">>, <<A, "/", "#", "/", "p">> >>
       [] s = "nav" /\ n = "b" ->
            << <<A, "/", "c">>, <<A, "/", "a", "#", "top">> >>
       [] s = "nav" /\ n = "p" ->
            << <<A, "/">>, <<"https://www.a.com", "/", "c">> >>
       [] s = "menu" /\ n = "root" ->
            << <<A, "/", "a">>, <<A, "/", "a">>, <<A, "/", "a">>,
               <<A, "/", "a">>, <<A, "/", "a">>, <<A, "/", "a">>,
               <<A, "/", "b">>, <<A, "/", "a">> >>
       [] s = "menu" /\ n = "a" -> << <<A, "/", "c">>, <<A, "/", "c">> >>
       [] s = "menu" /\ n = "b" -> << <<A, "/", "f">> >>
       [] s = "menu" /\ n = "c" -> << <<A, "/", "e">> >>
       [] OTHER -> << >>

Sites == {"nav", "menu"}

\* ------------------------------------------------------------------------
\* Bounds
\* ------------------------------------------------------------------------

MaxDepthBound == 3
MaxPagesBound == 3

\* failures (page loads, INSERTs, progress reports) injected per job
MaxFaults == 3

\* tokens of a URL given to normalizeUrl or sameDomain
MaxUrlLen == 6

\* ------------------------------------------------------------------------
\* State
\* ------------------------------------------------------------------------

VARIABLES
  variant,        \* which crawlWebsite runs: "playwright" or "puppeteer"
  site,           \* the website being crawled
  maxDepth,       \* job parameter
  maxPages,       \* job parameter
  pc,             \* position of crawlWebsite
  visited,        \* const visited = new Set()
  queue,          \* const queue = [...]
  pages,          \* const pages = []
  batch,          \* the items taken from the queue and being processed
  tasks,          \* one async callback per batch item
  rows,           \* rows of the pages table inserted by this run
  browserOpen,    \* the browser launched for the job is running
  error,          \* the exception that escaped the traversal, "none" if none
  deleteRequested,\* DELETE /api/crawl/:jobId was issued for the job
  batchCount,     \* number of batches formed so far
  fetchLog,       \* URLs for which a page load was started, in order
  inserted,       \* URLs for which an INSERT INTO pages was issued
  faults,         \* number of failures injected so far
  loadFailed,     \* URLs whose page load failed
  mixedBatch,     \* a batch holding items of two depths was formed
  visitedAtBatch, \* the visited set when the current batch was formed
  inFlightAtDelete, \* URLs whose page load was pending when DELETE was issued
  status,         \* crawl_jobs.status of the job
  attempt,        \* number of the attempt the queue is running
  thrown,         \* the exception the processor threw to the queue, or "none"
  input,          \* the argument of the function a function check applies
  output,         \* the call made by a function check and what it returned
  db,             \* the rows of the database and the entries of the queue
  procs,          \* the request handlers and jobs in progress on the server
  browserInstance \* let browserInstance of puppeteerCrawler.js

vars == <<variant, site, maxDepth, maxPages, pc, visited, queue, pages, batch,
          tasks, rows, browserOpen, error, deleteRequested,
          batchCount, fetchLog, inserted, faults, loadFailed, mixedBatch,
          visitedAtBatch, inFlightAtDelete, status, attempt, thrown, input,
          output, db, procs, browserInstance>>

\* the state of the server outside the one crawl
server == <<db, procs, browserInstance>>

params == <<variant, site, maxDepth, maxPages, input, output, server>>

\* nothing but the one crawl is looked at
NoServer == db = Null /\ procs = Null /\ browserInstance = Null

job == <<status, attempt, thrown>>

\* crawlQueue.add(..., { attempts: 3, ... })
Attempts == 3

CONCURRENCY == 6

\* domain.startsWith('http') ? domain : `https://${domain}`
BaseUrl(domain) ==
  IF domain[1] \in DOMAIN Hostname THEN domain
  ELSE IF domain = <<"a.com">> THEN <<A>> ELSE <<"https://b.com">>

\* the domain of the job
Domain == <<"a.com">>

baseUrl == BaseUrl(Domain)

Init ==
  /\ variant \in {"playwright", "puppeteer"}
  /\ site \in Sites
  /\ maxDepth \in 0..MaxDepthBound
  /\ maxPages \in 1..MaxPagesBound
  /\ input = Null
  /\ output = Null
  /\ NoServer
  /\ pc = IF variant = "playwright" THEN "wStart" ELSE "setup"
  /\ status = "PENDING"
  /\ attempt = 1
  /\ thrown = "none"
  /\ visited = {}
  /\ queue = << [url |-> baseUrl, depth |-> 0, parentUrl |-> Null] >>
  /\ pages = << >>
  /\ batch = << >>
  /\ tasks = << >>
  /\ rows = << >>
  /\ browserOpen = FALSE
  /\ error = "none"
  /\ deleteRequested = FALSE
  /\ batchCount = 0
  /\ fetchLog = << >>
  /\ inserted = {}
  /\ faults = 0
  /\ loadFailed = {}
  /\ mixedBatch = FALSE
  /\ visitedAtBatch = {}
  /\ inFlightAtDelete = {}

\* ------------------------------------------------------------------------
\* Playwright crawler: crawlWebsite
\* ------------------------------------------------------------------------

\* queue.splice(0, CONCURRENCY): the removed head
Head6(q) == SubSeq(q, 1, IF Len(q) < CONCURRENCY THEN Len(q) ELSE CONCURRENCY)

\* queue.splice(0, CONCURRENCY): what stays in the queue
Rest6(q) == SubSeq(q, (IF Len(q) < CONCURRENCY THEN Len(q) ELSE CONCURRENCY) + 1, Len(q))

\* while (queue.length > 0 && visited.size < maxPages)
LoopCondition == Len(queue) > 0 /\ Cardinality(visited) < maxPages

IdleTask ==
  [pc |-> "new", url |-> Null, links |-> << >>, status |-> 200,
   cause |-> "none"]

\* one iteration of the while loop up to the call of batch.map
FormBatch ==
  /\ variant = "playwright"
  /\ pc = "loop"
  /\ LoopCondition
  /\ batch' = Head6(queue)
  /\ queue' = Rest6(queue)
  /\ tasks' = [i \in 1..Len(Head6(queue)) |-> IdleTask]
  /\ pc' = "batch"
  /\ batchCount' = batchCount + 1
  /\ visitedAtBatch' = visited
  /\ mixedBatch' = (mixedBatch \/ \E i, j \in 1..Len(Head6(queue)) :
                       queue[i].depth # queue[j].depth)
  /\ UNCHANGED <<params, job, inFlightAtDelete, faults, visited, pages, rows, browserOpen, error,
                 deleteRequested, fetchLog, inserted, loadFailed>>

\* the loop ends: control passes to the finally block
ExitLoop ==
  /\ variant = "playwright"
  /\ pc = "loop"
  /\ ~LoopCondition
  /\ pc' = "closing"
  /\ UNCHANGED <<params, job, inFlightAtDelete, visitedAtBatch, faults, visited, queue, pages, batch, tasks, rows,
                 browserOpen, error, deleteRequested, batchCount,
                 fetchLog, inserted, loadFailed, mixedBatch>>

\* const url = normalizeUrl(item.url, item.url.includes('#/'))
CanonicalUrl(raw) == normalizeUrl(raw, Includes(raw, HashSlash))

\* ShouldSkip without the visited.has(url) test
ShouldSkip_NoVisited(url, item) ==
  url = Null \/ item.depth > maxDepth

\* if (!url || visited.has(url) || item.depth > maxDepth) return;
ShouldSkip(url, item) ==
  url = Null \/ url \in visited \/ item.depth > maxDepth

\* StartItem without the visited.add(url) call
StartItem_NoAdd(i) ==
  /\ variant = "playwright"
  /\ pc = "batch"
  /\ i \in 1..Len(tasks)
  /\ tasks[i].pc = "new"
  /\ \A j \in 1..(i-1) : tasks[j].pc # "new"
  /\ LET url == CanonicalUrl(batch[i].url)
     IN IF url = Null \/ url \in visited \/ batch[i].depth > maxDepth
        THEN /\ tasks' = [tasks EXCEPT ![i].pc = "skipped"]
             /\ UNCHANGED fetchLog
        ELSE /\ tasks' = [tasks EXCEPT ![i].pc = "fetching", ![i].url = url]
             /\ fetchLog' = Append(fetchLog, url)
  /\ UNCHANGED <<params, job, inFlightAtDelete, visitedAtBatch, faults, pc, queue,
                 pages, batch, rows, browserOpen, error, deleteRequested,
                 batchCount, inserted, loadFailed, mixedBatch, visited>>

\* the filter without its return: a filtered item is processed all the same
StartItem_NoReturn(i) ==
  /\ variant = "playwright"
  /\ pc = "batch"
  /\ i \in 1..Len(tasks)
  /\ tasks[i].pc = "new"
  /\ \A j \in 1..(i-1) : tasks[j].pc # "new"
  /\ visited' = visited \cup {CanonicalUrl(batch[i].url)}
  /\ tasks' = [tasks EXCEPT ![i].pc = "fetching",
                            ![i].url = CanonicalUrl(batch[i].url)]
  /\ fetchLog' = Append(fetchLog, CanonicalUrl(batch[i].url))
  /\ UNCHANGED <<params, job, inFlightAtDelete, visitedAtBatch, faults, pc, queue, pages, batch, rows, browserOpen, error,
                 deleteRequested, batchCount, inserted, loadFailed,
                 mixedBatch>>

\* the synchronous prefix of the callback of item i, run by batch.map in
\* index order: normalise, filter, visited.add(url), call crawlPage, which
\* suspends at its first await
StartItem(i) ==
  /\ variant = "playwright"
  /\ pc = "batch"
  /\ i \in 1..Len(tasks)
  /\ tasks[i].pc = "new"
  /\ \A j \in 1..(i-1) : tasks[j].pc # "new"
  /\ LET url == CanonicalUrl(batch[i].url)
     IN IF ShouldSkip(url, batch[i])
        THEN /\ tasks' = [tasks EXCEPT ![i].pc = "skipped"]
             /\ UNCHANGED <<visited, fetchLog>>
        ELSE /\ visited' = visited \cup {url}
             /\ tasks' = [tasks EXCEPT ![i].pc = "fetching", ![i].url = url]
             /\ fetchLog' = Append(fetchLog, url)
  /\ UNCHANGED <<params, job, inFlightAtDelete, visitedAtBatch, faults, pc, queue, pages, batch, rows, browserOpen, error,
                 deleteRequested, batchCount, inserted, loadFailed,
                 mixedBatch>>

\* every callback of the batch has run up to its first await
AllStarted == \A j \in 1..Len(tasks) : tasks[j].pc # "new"

\* one more injected failure
Fault == faults < MaxFaults /\ faults' = faults + 1

\* a failure of a browser operation: injected, or forced once the browser
\* is closed
FaultOrForced == IF browserOpen THEN Fault ELSE UNCHANGED faults

\* an exception thrown by the callback of item i rejects its promise;
\* Promise.all rejects on the first one and control passes to finally
Throw(i, what) ==
  /\ tasks' = [tasks EXCEPT ![i].pc = "threw"]
  /\ IF pc = "batch"
     THEN pc' = "closing" /\ error' = what
     ELSE UNCHANGED <<pc, error>>

\* crawlPage: context.newPage() or page.route() throws, outside the try
NewPageFail(i) ==
  /\ variant = "playwright"
  /\ i \in 1..Len(tasks)
  /\ AllStarted
  /\ tasks[i].pc = "fetching"
  /\ Throw(i, "newPage")
  /\ FaultOrForced
  /\ UNCHANGED <<params, job, inFlightAtDelete, visitedAtBatch, visited, queue, pages, batch, rows, browserOpen,
                 deleteRequested, batchCount, fetchLog, inserted,
                 loadFailed, mixedBatch>>

\* crawlPage: the page opens, page.goto and the extraction succeed:
\* return { title, links }
FetchOk(i) ==
  /\ variant = "playwright"
  /\ i \in 1..Len(tasks)
  /\ AllStarted
  /\ tasks[i].pc = "fetching"
  /\ browserOpen
  /\ tasks' = [tasks EXCEPT ![i].pc = "storing",
                            ![i].links = SiteLinks(site, tasks[i].url)]
  /\ inserted' = inserted \cup {tasks[i].url}
  /\ UNCHANGED <<params, job, inFlightAtDelete, visitedAtBatch, faults, pc, visited, queue, pages, batch, rows, browserOpen,
                 error, deleteRequested, batchCount, fetchLog,
                 loadFailed, mixedBatch>>

\* FetchFail with a catch that rethrows the page load error
FetchFail_Rethrow(i) ==
  /\ variant = "playwright"
  /\ i \in 1..Len(tasks)
  /\ AllStarted
  /\ tasks[i].pc = "fetching"
  /\ Throw(i, "goto")
  /\ loadFailed' = loadFailed \cup {tasks[i].url}
  /\ FaultOrForced
  /\ UNCHANGED <<params, job, inFlightAtDelete, visitedAtBatch, visited, queue,
                 pages, batch, rows, browserOpen, deleteRequested, batchCount,
                 fetchLog, inserted, mixedBatch>>

\* crawlPage: page.goto or the extraction throws; the catch returns
\* { title: "Untitled", links: [] }
FetchFail(i) ==
  /\ variant = "playwright"
  /\ i \in 1..Len(tasks)
  /\ AllStarted
  /\ tasks[i].pc = "fetching"
  /\ tasks' = [tasks EXCEPT ![i].pc = "storing", ![i].links = << >>]
  /\ loadFailed' = loadFailed \cup {tasks[i].url}
  /\ inserted' = inserted \cup {tasks[i].url}
  /\ FaultOrForced
  /\ UNCHANGED <<params, job, inFlightAtDelete, visitedAtBatch, pc, visited, queue, pages, batch, rows, browserOpen,
                 error, deleteRequested, batchCount, fetchLog,
                 mixedBatch>>

\* the status_code bound to the INSERT
StatusCode(url) == 200

\* the row of the INSERT INTO pages
PageRow(item, url) ==
  [url |-> url, depth |-> item.depth, parentUrl |-> item.parentUrl,
   status |-> StatusCode(url)]

\* the object pushed to pages
PageRecord(item, url) ==
  [url |-> url, depth |-> item.depth, parentUrl |-> item.parentUrl]

\* LinkAccepted with item.depth <= maxDepth
LinkAccepted_DepthLeq(link, item) ==
  /\ CanonicalUrl(link) # Null
  /\ CanonicalUrl(link) \notin visited
  /\ sameDomain(CanonicalUrl(link), baseUrl)
  /\ item.depth <= maxDepth

\* the condition under which a link is pushed to the queue
LinkAccepted(link, item) ==
  LET normalizedLink == CanonicalUrl(link)
  IN /\ normalizedLink # Null
     /\ normalizedLink \notin visited
     /\ sameDomain(normalizedLink, baseUrl)
     /\ item.depth < maxDepth

\* ChildItem with the depth of the parent
ChildItem_SameDepth(link, item, url) ==
  [url |-> CanonicalUrl(link), depth |-> item.depth, parentUrl |-> url]

\* the item pushed to the queue for a link
ChildItem(link, item, url) ==
  [url |-> CanonicalUrl(link), depth |-> item.depth + 1, parentUrl |-> url]

\* the items pushed for the links of one page, in link order
RECURSIVE AcceptedChildren(_, _, _)
AcceptedChildren(links, item, url) ==
  IF links = << >> THEN << >>
  ELSE (IF LinkAccepted(Head(links), item)
        THEN <<ChildItem(Head(links), item, url)>> ELSE << >>)
       \o AcceptedChildren(Tail(links), item, url)

\* EnqueueLinks with queue.unshift in place of queue.push
EnqueueLinks_Unshift(q, links, item, url) ==
  AcceptedChildren(links, item, url) \o q

\* for (const link of links) { ... queue.push(...) }
EnqueueLinks(q, links, item, url) ==
  q \o AcceptedChildren(links, item, url)

\* the INSERT succeeds: pages.push, link processing, onProgress is called
StoreOk(i) ==
  /\ variant = "playwright"
  /\ i \in 1..Len(tasks)
  /\ tasks[i].pc = "storing"
  /\ rows' = Append(rows, PageRow(batch[i], tasks[i].url))
  /\ pages' = Append(pages, PageRecord(batch[i], tasks[i].url))
  /\ queue' = EnqueueLinks(queue, tasks[i].links, batch[i], tasks[i].url)
  /\ tasks' = [tasks EXCEPT ![i].pc = "reporting"]
  /\ UNCHANGED <<params, job, inFlightAtDelete, visitedAtBatch, faults, pc, visited, batch, browserOpen, error,
                 deleteRequested, batchCount, fetchLog, inserted,
                 loadFailed, mixedBatch>>

\* the INSERT without its try/catch: dbError escapes the callback
StoreFail_Rethrow(i) ==
  /\ variant = "playwright"
  /\ i \in 1..Len(tasks)
  /\ tasks[i].pc = "storing"
  /\ Throw(i, "insert")
  /\ Fault
  /\ UNCHANGED <<params, job, inFlightAtDelete, visitedAtBatch, visited, queue, pages, batch, rows, browserOpen,
                 deleteRequested, batchCount, fetchLog, inserted,
                 loadFailed, mixedBatch>>

\* the INSERT throws: the error is logged, link processing, onProgress
StoreFail(i) ==
  /\ variant = "playwright"
  /\ i \in 1..Len(tasks)
  /\ tasks[i].pc = "storing"
  /\ queue' = EnqueueLinks(queue, tasks[i].links, batch[i], tasks[i].url)
  /\ tasks' = [tasks EXCEPT ![i].pc = "reporting"]
  /\ Fault
  /\ UNCHANGED <<params, job, inFlightAtDelete, visitedAtBatch, pc, visited, pages, batch, rows, browserOpen, error,
                 deleteRequested, batchCount, fetchLog, inserted,
                 loadFailed, mixedBatch>>

\* onProgress resolves: the callback of item i is done
ProgressOk(i) ==
  /\ variant = "playwright"
  /\ i \in 1..Len(tasks)
  /\ tasks[i].pc = "reporting"
  /\ tasks' = [tasks EXCEPT ![i].pc = "done"]
  /\ UNCHANGED <<params, job, inFlightAtDelete, visitedAtBatch, faults, pc, visited, queue, pages, batch, rows, browserOpen,
                 error, deleteRequested, batchCount, fetchLog,
                 inserted, loadFailed, mixedBatch>>

\* onProgress (an UPDATE and a broadcast) throws
ProgressFail(i) ==
  /\ variant = "playwright"
  /\ i \in 1..Len(tasks)
  /\ tasks[i].pc = "reporting"
  /\ Throw(i, "onProgress")
  /\ Fault
  /\ UNCHANGED <<params, job, inFlightAtDelete, visitedAtBatch, visited, queue, pages, batch, rows, browserOpen,
                 deleteRequested, batchCount, fetchLog, inserted,
                 loadFailed, mixedBatch>>

\* Promise.race in place of Promise.all: the loop goes on when one callback
\* has finished
BatchDone_Any ==
  /\ variant = "playwright"
  /\ pc = "batch"
  /\ \E j \in 1..Len(tasks) : tasks[j].pc \in {"skipped", "done"}
  /\ pc' = "loop"
  /\ UNCHANGED <<params, job, inFlightAtDelete, visitedAtBatch, faults, visited, queue, pages, rows, browserOpen, error,
                 deleteRequested, batchCount, fetchLog, inserted,
                 loadFailed, mixedBatch, batch, tasks>>

\* Promise.all resolves: back to the loop test
BatchDone ==
  /\ variant = "playwright"
  /\ pc = "batch"
  /\ \A j \in 1..Len(tasks) : tasks[j].pc \in {"skipped", "done"}
  /\ pc' = "loop"
  /\ batch' = << >>
  /\ tasks' = << >>
  /\ UNCHANGED <<params, job, inFlightAtDelete, visitedAtBatch, faults, visited, queue, pages, rows, browserOpen, error,
                 deleteRequested, batchCount, fetchLog, inserted,
                 loadFailed, mixedBatch>>

\* finally { await browser.close() }, then return pages or rethrow
CloseBrowser ==
  /\ variant = "playwright"
  /\ pc = "closing"
  /\ browserOpen' = FALSE
  /\ pc' = IF error = "none" THEN "done" ELSE "rejected"
  /\ UNCHANGED <<params, job, inFlightAtDelete, visitedAtBatch, faults, visited, queue, pages, batch, tasks, rows, error,
                 deleteRequested, batchCount, fetchLog, inserted,
                 loadFailed, mixedBatch>>

\* ------------------------------------------------------------------------
\* Playwright crawler: the browser session
\* ------------------------------------------------------------------------

\* const browser = await chromium.launch(...), before the try block
Launch(ok) ==
  /\ variant = "playwright"
  /\ pc = "launch"
  /\ IF ok
     THEN browserOpen' = TRUE /\ pc' = "context" /\ UNCHANGED <<error, faults>>
     ELSE Fault /\ error' = "launch" /\ pc' = "rejected" /\ UNCHANGED browserOpen
  /\ UNCHANGED <<params, thrown, visited, queue, pages, batch, tasks, rows,
                 deleteRequested, batchCount, fetchLog, inserted, loadFailed,
                 mixedBatch, visitedAtBatch, inFlightAtDelete, status,
                 attempt>>

\* const context = await browser.newContext(...), before the try block: when
\* it throws, the finally block is not entered
NewContext(ok) ==
  /\ variant = "playwright"
  /\ pc = "context"
  /\ IF ok
     THEN pc' = "loop" /\ UNCHANGED <<error, faults>>
     ELSE Fault /\ error' = "context" /\ pc' = "rejected"
  /\ UNCHANGED <<params, thrown, visited, queue, pages, batch, tasks, rows,
                 browserOpen, deleteRequested, batchCount, fetchLog,
                 inserted, loadFailed, mixedBatch, visitedAtBatch,
                 inFlightAtDelete, status, attempt>>

\* ------------------------------------------------------------------------
\* Puppeteer crawler: crawlWebsite
\* ------------------------------------------------------------------------

\* while (queue.length > 0 && pages.length < maxPages)
PupLoopCondition == Len(queue) > 0 /\ Len(pages) < maxPages

\* the continue statements before the visited.add calls; robots is always
\* null (parseRobots is undefined, so checkRobotsTxt resolves null)
PupShouldSkip(item) ==
  \/ item.depth > maxDepth
  \/ item.url \in visited
  \/ pupNormalizeUrl(item.url) \in visited

\* browser = await getBrowser(): the shared browserInstance is launched when
\* there is none; checkRobotsTxt resolves null
PupSetup(ok) ==
  /\ variant = "puppeteer"
  /\ pc = "setup"
  /\ IF ok
     THEN browserOpen' = TRUE /\ pc' = "loop" /\ UNCHANGED <<error, faults>>
     ELSE Fault /\ error' = "launch" /\ pc' = "rejected" /\ UNCHANGED browserOpen
  /\ UNCHANGED <<params, thrown, visited, queue, pages, batch, tasks, rows,
                 deleteRequested, batchCount, fetchLog, inserted, loadFailed,
                 mixedBatch, visitedAtBatch, inFlightAtDelete, status,
                 attempt>>

\* queue.shift() and the filters, up to the call of browser.newPage()
PupTake ==
  /\ variant = "puppeteer"
  /\ pc = "loop"
  /\ PupLoopCondition
  /\ queue' = Tail(queue)
  /\ IF PupShouldSkip(Head(queue))
     THEN UNCHANGED <<pc, visited, batch, tasks, batchCount, fetchLog,
                      visitedAtBatch>>
     ELSE /\ visited' = visited \cup {pupNormalizeUrl(Head(queue).url),
                                      Head(queue).url}
          /\ batch' = <<Head(queue)>>
          /\ tasks' = <<[pc |-> "fetching",
                         url |-> pupNormalizeUrl(Head(queue).url),
                         links |-> << >>, status |-> 200,
                         cause |-> "none"]>>
          /\ pc' = "batch"
          /\ batchCount' = batchCount + 1
          /\ visitedAtBatch' = visited
          /\ fetchLog' = Append(fetchLog, pupNormalizeUrl(Head(queue).url))
  /\ UNCHANGED <<params, job, inFlightAtDelete, faults, pages, rows, browserOpen, error, deleteRequested,
                 inserted, loadFailed, mixedBatch>>

\* [...new Set(links)]
RECURSIVE Unique(_)
Unique(s) ==
  IF s = << >> THEN << >>
  ELSE LET r == Unique(SubSeq(s, 1, Len(s) - 1))
       IN IF \E i \in 1..Len(r) : r[i] = s[Len(s)] THEN r
          ELSE Append(r, s[Len(s)])

\* navigation and extraction succeed; the INSERT of the page is issued
PupFetchOk ==
  /\ variant = "puppeteer"
  /\ pc = "batch"
  /\ tasks[1].pc = "fetching"
  /\ tasks' = [tasks EXCEPT ![1].pc = "storing",
                            ![1].links = Unique(SiteLinks(site, batch[1].url))]
  /\ inserted' = inserted \cup {tasks[1].url}
  /\ UNCHANGED <<params, job, inFlightAtDelete, visitedAtBatch, faults, pc, visited, queue, pages, batch, rows, browserOpen,
                 error, deleteRequested, batchCount, fetchLog, loadFailed,
                 mixedBatch>>

\* a classification that has no test for timeouts
PupErrorStatus_NoTimeout(kind) ==
  IF kind = "blocked" THEN 403 ELSE 0

\* isBlocked ? 403 : isTimeout ? 408 : 0
PupErrorStatus(kind) ==
  IF kind = "blocked" THEN 403 ELSE IF kind = "timeout" THEN 408 ELSE 0

ErrorKinds == {"timeout", "blocked", "other"}

\* the catch of the item: the INSERT of the failed page is issued
PupCatch(kind) ==
  /\ tasks' = [tasks EXCEPT ![1].pc = "errorRow", ![1].links = << >>,
                            ![1].cause = kind,
                            ![1].status = PupErrorStatus(kind)]
  /\ inserted' = inserted \cup {tasks[1].url}

\* navigation (all strategies), the bot check or the extraction throws
PupFetchFail(kind) ==
  /\ variant = "puppeteer"
  /\ pc = "batch"
  /\ tasks[1].pc = "fetching"
  /\ PupCatch(kind)
  /\ loadFailed' = loadFailed \cup {tasks[1].url}
  /\ Fault
  /\ UNCHANGED <<params, job, inFlightAtDelete, visitedAtBatch, pc, visited, queue, pages, batch, rows, browserOpen,
                 error, deleteRequested, batchCount, fetchLog, mixedBatch>>

\* www. prefix of a hostname
Www(h) ==
  CASE h = "a.com" -> "www.a.com"
    [] h = "b.com" -> "www.b.com"
    [] OTHER -> "www.www.a.com"

\* new URL(link, baseUrl).href
Resolve(link) ==
  IF ParseUrl(link).ok THEN Href(ParseUrl(link))
  ELSE <<ParseUrl(baseUrl).origin, "/">> \o link

\* the condition under which a link is pushed to the queue
PupLinkAccepted(link, item) ==
  LET linkDomain == Hostname[ParseUrl(Resolve(link)).origin]
      baseDomain == Hostname[ParseUrl(baseUrl).origin]
  IN /\ \/ linkDomain = baseDomain
        \/ linkDomain = Www(baseDomain)
        \/ Www(linkDomain) = baseDomain
     /\ pupNormalizeUrl(Resolve(link)) \notin visited
     /\ item.depth < maxDepth

\* the item pushed to the queue for a link
PupChildItem(link, item, url) ==
  [url |-> pupNormalizeUrl(Resolve(link)), depth |-> item.depth + 1,
   parentUrl |-> url]

\* the items pushed for the links of one page, in link order
RECURSIVE PupAcceptedChildren(_, _, _)
PupAcceptedChildren(links, item, url) ==
  IF links = << >> THEN << >>
  ELSE (IF PupLinkAccepted(Head(links), item)
        THEN <<PupChildItem(Head(links), item, url)>> ELSE << >>)
       \o PupAcceptedChildren(Tail(links), item, url)

\* for (const link of uniqueLinks) { ... queue.push(...) }
PupEnqueueLinks(q, links, item, url) ==
  q \o PupAcceptedChildren(links, item, url)

\* if (onProgress && pages.length % 10 === 0)
ProgressEvery == 10

\* the INSERT succeeds: pages.push, the links are enqueued, onProgress is
\* called on every tenth page (when it throws, the catch of the item runs),
\* the delay passes
PupStoreOk(progress) ==
  /\ variant = "puppeteer"
  /\ pc = "batch"
  /\ tasks[1].pc = "storing"
  /\ rows' = Append(rows, [url |-> tasks[1].url, depth |-> batch[1].depth,
                           parentUrl |-> batch[1].parentUrl, status |-> 200])
  /\ pages' = Append(pages, PageRecord(batch[1], tasks[1].url))
  /\ queue' = PupEnqueueLinks(queue, tasks[1].links, batch[1], tasks[1].url)
  /\ IF (Len(pages) + 1) % ProgressEvery = 0 /\ progress \in ErrorKinds
     THEN /\ PupCatch(progress)
          /\ Fault
          /\ UNCHANGED <<pc, batch>>
     ELSE /\ pc' = "loop"
          /\ batch' = << >>
          /\ tasks' = << >>
          /\ UNCHANGED <<inserted, faults>>
  /\ UNCHANGED <<params, job, inFlightAtDelete, visitedAtBatch, visited,
                 browserOpen, error, deleteRequested, batchCount, fetchLog,
                 loadFailed, mixedBatch>>

\* the INSERT throws: the catch of the item runs
PupStoreFail(kind) ==
  /\ variant = "puppeteer"
  /\ pc = "batch"
  /\ tasks[1].pc = "storing"
  /\ PupCatch(kind)
  /\ Fault
  /\ UNCHANGED <<params, job, inFlightAtDelete, visitedAtBatch, pc, visited, queue, pages, batch, rows, browserOpen,
                 error, deleteRequested, batchCount, fetchLog, loadFailed,
                 mixedBatch>>

\* the INSERT of the failed page returns (stored when ok, else ignored)
PupErrorRow(ok) ==
  /\ variant = "puppeteer"
  /\ pc = "batch"
  /\ tasks[1].pc = "errorRow"
  /\ rows' = IF ok
             THEN Append(rows, [url |-> tasks[1].url, depth |-> batch[1].depth,
                                parentUrl |-> batch[1].parentUrl,
                                status |-> tasks[1].status])
             ELSE rows
  /\ pc' = "loop"
  /\ batch' = << >>
  /\ tasks' = << >>
  /\ IF ok THEN UNCHANGED faults ELSE Fault
  /\ UNCHANGED <<params, job, inFlightAtDelete, visitedAtBatch, visited, queue, pages, browserOpen, error,
                 deleteRequested, batchCount, fetchLog, inserted, loadFailed,
                 mixedBatch>>

\* the loop ends: the final onProgress, then return pages, or the outer
\* catch rethrows; the shared browser stays open
PupExit(ok) ==
  /\ variant = "puppeteer"
  /\ pc = "loop"
  /\ ~PupLoopCondition
  /\ pc' = IF ok THEN "done" ELSE "rejected"
  /\ error' = IF ok THEN error ELSE "onProgress"
  /\ IF ok THEN UNCHANGED faults ELSE Fault
  /\ UNCHANGED <<params, job, inFlightAtDelete, visitedAtBatch, visited, queue, pages, batch, tasks, rows,
                 browserOpen, deleteRequested, batchCount, fetchLog,
                 inserted, loadFailed, mixedBatch>>

\* ------------------------------------------------------------------------
\* DELETE /api/crawl/:jobId
\* ------------------------------------------------------------------------

\* job.remove() and the DELETE FROM crawl_jobs; when job.remove() throws,
\* the handler answers 500 and the row stays
DeleteJob ==
  /\ variant = "playwright"
  /\ pc \in {"loop", "batch"}
  /\ ~deleteRequested
  /\ deleteRequested' = TRUE
  /\ inFlightAtDelete' = {tasks[i].url : i \in {j \in 1..Len(tasks) : tasks[j].pc = "fetching"}}
  /\ UNCHANGED <<params, job, visitedAtBatch, faults, pc, visited, queue, pages, batch, tasks, rows,
                 browserOpen, error, batchCount, fetchLog, inserted,
                 loadFailed, mixedBatch>>

\* ------------------------------------------------------------------------
\* Queue worker: the processor of crawl-queue
\* ------------------------------------------------------------------------

\* the exceptions that escape crawlWebsite
CrawlErrors == {"launch", "context", "newPage", "onProgress"}

\* UPDATE crawl_jobs SET status = 'CRAWLING', then crawlWebsite is called
WorkerStart(ok) ==
  /\ variant = "playwright"
  /\ pc = "wStart"
  /\ IF ok
     THEN status' = "CRAWLING" /\ pc' = "launch" /\ UNCHANGED <<error, faults>>
     ELSE Fault /\ error' = "status" /\ pc' = "wCatch" /\ UNCHANGED status
  /\ UNCHANGED <<params, thrown, visited, queue, pages, batch, tasks, rows,
                 browserOpen, deleteRequested, batchCount, fetchLog,
                 inserted, loadFailed, mixedBatch, visitedAtBatch,
                 inFlightAtDelete, attempt>>

\* crawlWebsite returned: UPDATE crawl_jobs SET status = 'PROCESSING'
WorkerProcessing(ok) ==
  /\ variant = "playwright"
  /\ pc = "done"
  /\ IF ok
     THEN status' = "PROCESSING" /\ pc' = "wSitemap" /\ UNCHANGED <<error, faults>>
     ELSE Fault /\ error' = "status" /\ pc' = "wCatch" /\ UNCHANGED status
  /\ UNCHANGED <<params, thrown, visited, queue, pages, batch, tasks, rows,
                 browserOpen, deleteRequested, batchCount, fetchLog,
                 inserted, loadFailed, mixedBatch, visitedAtBatch,
                 inFlightAtDelete, attempt>>

\* buildSitemapStructure(pages) and INSERT INTO sitemaps
WorkerSitemap(ok) ==
  /\ variant = "playwright"
  /\ pc = "wSitemap"
  /\ IF ok
     THEN pc' = "wComplete" /\ UNCHANGED <<error, faults>>
     ELSE Fault /\ error' = "sitemap" /\ pc' = "wCatch"
  /\ UNCHANGED <<params, thrown, visited, queue, pages, batch, tasks, rows,
                 browserOpen, deleteRequested, batchCount, fetchLog,
                 inserted, loadFailed, mixedBatch, visitedAtBatch,
                 inFlightAtDelete, status, attempt>>

\* UPDATE crawl_jobs SET status = 'COMPLETED' and return
WorkerComplete(ok) ==
  /\ variant = "playwright"
  /\ pc = "wComplete"
  /\ IF ok
     THEN status' = "COMPLETED" /\ pc' = "completed" /\ UNCHANGED <<error, faults>>
     ELSE Fault /\ error' = "status" /\ pc' = "wCatch" /\ UNCHANGED status
  /\ UNCHANGED <<params, thrown, visited, queue, pages, batch, tasks, rows,
                 browserOpen, deleteRequested, batchCount, fetchLog,
                 inserted, loadFailed, mixedBatch, visitedAtBatch,
                 inFlightAtDelete, attempt>>

\* a catch block that logs and marks the job but does not rethrow
WorkerCatch_NoThrow(ok) ==
  /\ variant = "playwright"
  /\ pc \in {"rejected", "wCatch"}
  /\ IF ok
     THEN status' = "FAILED" /\ UNCHANGED faults
     ELSE Fault /\ UNCHANGED status
  /\ pc' = "completed"
  /\ UNCHANGED <<params, thrown, visited, queue, pages, batch, tasks, rows,
                 browserOpen, error, deleteRequested, batchCount, fetchLog,
                 inserted, loadFailed, mixedBatch, visitedAtBatch,
                 inFlightAtDelete, attempt>>

\* catch (error): UPDATE crawl_jobs SET status = 'FAILED', error_message,
\* then throw error; when the UPDATE rejects, its error is thrown instead
WorkerCatch(ok) ==
  /\ variant = "playwright"
  /\ pc \in {"rejected", "wCatch"}
  /\ IF ok
     THEN status' = "FAILED" /\ thrown' = error /\ UNCHANGED faults
     ELSE Fault /\ thrown' = "status" /\ UNCHANGED status
  /\ pc' = "thrown"
  /\ UNCHANGED <<params, visited, queue, pages, batch, tasks, rows,
                 browserOpen, error, deleteRequested, batchCount, fetchLog,
                 inserted, loadFailed, mixedBatch, visitedAtBatch,
                 inFlightAtDelete, attempt>>

\* a queue that retries a failing job without a limit on the attempts
Retry_Unlimited ==
  /\ variant = "playwright"
  /\ pc = "thrown"
  /\ ~deleteRequested
  /\ \A j \in 1..Len(tasks) : tasks[j].pc \in {"skipped", "done", "threw"}
  /\ attempt' = attempt + 1
  /\ pc' = "wStart"
  /\ visited' = {}
  /\ queue' = << [url |-> baseUrl, depth |-> 0, parentUrl |-> Null] >>
  /\ pages' = << >>
  /\ batch' = << >>
  /\ tasks' = << >>
  /\ rows' = << >>
  /\ browserOpen' = FALSE
  /\ error' = "none"
  /\ batchCount' = 0
  /\ fetchLog' = << >>
  /\ inserted' = {}
  /\ loadFailed' = {}
  /\ mixedBatch' = FALSE
  /\ visitedAtBatch' = {}
  /\ inFlightAtDelete' = {}
  /\ thrown' = "none"
  /\ UNCHANGED <<params, status, faults, deleteRequested>>

\* the processor threw and attempts are left: after the backoff delay the
\* queue runs the processor again, with new visited, queue and pages
Retry ==
  /\ variant = "playwright"
  /\ pc = "thrown"
  /\ attempt < Attempts
  /\ ~deleteRequested
  /\ \A j \in 1..Len(tasks) : tasks[j].pc \in {"skipped", "done", "threw"}
  /\ attempt' = attempt + 1
  /\ pc' = "wStart"
  /\ visited' = {}
  /\ queue' = << [url |-> baseUrl, depth |-> 0, parentUrl |-> Null] >>
  /\ pages' = << >>
  /\ batch' = << >>
  /\ tasks' = << >>
  /\ rows' = << >>
  /\ browserOpen' = FALSE
  /\ error' = "none"
  /\ batchCount' = 0
  /\ fetchLog' = << >>
  /\ inserted' = {}
  /\ loadFailed' = {}
  /\ mixedBatch' = FALSE
  /\ visitedAtBatch' = {}
  /\ inFlightAtDelete' = {}
  /\ thrown' = "none"
  /\ UNCHANGED <<params, status, faults, deleteRequested>>

Next ==
  \/ \E ok \in BOOLEAN : WorkerStart(ok)
  \/ \E ok \in BOOLEAN : Launch(ok)
  \/ \E ok \in BOOLEAN : NewContext(ok)
  \/ FormBatch
  \/ ExitLoop
  \/ \E i \in 1..CONCURRENCY : StartItem(i)
  \/ \E i \in 1..CONCURRENCY : NewPageFail(i)
  \/ \E i \in 1..CONCURRENCY : FetchOk(i)
  \/ \E i \in 1..CONCURRENCY : FetchFail(i)
  \/ \E i \in 1..CONCURRENCY : StoreOk(i)
  \/ \E i \in 1..CONCURRENCY : StoreFail(i)
  \/ \E i \in 1..CONCURRENCY : ProgressOk(i)
  \/ \E i \in 1..CONCURRENCY : ProgressFail(i)
  \/ BatchDone
  \/ CloseBrowser
  \/ DeleteJob
  \/ PupTake
  \/ PupFetchOk
  \/ \E kind \in ErrorKinds : PupFetchFail(kind)
  \/ \E progress \in {"ok"} \cup ErrorKinds : PupStoreOk(progress)
  \/ \E kind \in ErrorKinds : PupStoreFail(kind)
  \/ \E ok \in BOOLEAN : PupErrorRow(ok)
  \/ \E ok \in BOOLEAN : PupExit(ok)
  \/ \E ok \in BOOLEAN : PupSetup(ok)
  \/ \E ok \in BOOLEAN : WorkerProcessing(ok)
  \/ \E ok \in BOOLEAN : WorkerSitemap(ok)
  \/ \E ok \in BOOLEAN : WorkerComplete(ok)
  \/ \E ok \in BOOLEAN : WorkerCatch(ok)
  \/ Retry

Spec == Init /\ [][Next]_vars

\* ------------------------------------------------------------------------
\* Function checks: normalizeUrl and sameDomain applied to bounded inputs
\* ------------------------------------------------------------------------

\* the tokens that follow the scheme and host: "p" stands for a name
UrlTokens == {"/", "?", "#", "p"}

\* the token sequences of at most n tokens
Tails(n) == UNION {[1..k -> UrlTokens] : k \in 0..n}

\* absolute URLs (a scheme and host, then nothing or a path, query or
\* fragment) and relative references, which new URL() rejects
Urls ==
  {<<o>> \o t : o \in {A, "https://www.a.com"},
               t \in {x \in Tails(MaxUrlLen - 1) : x = << >> \/ x[1] # "p"}}
    \cup {t \in Tails(MaxUrlLen - 1) : t # << >> /\ t[1] = "/"}

\* no crawl is running
NoCrawl ==
  /\ variant = "playwright"
  /\ site = "nav"
  /\ maxDepth = 0
  /\ maxPages = 1
  /\ pc = "wStart"
  /\ status = "PENDING"
  /\ attempt = 1
  /\ thrown = "none"
  /\ visited = {}
  /\ queue = << >>
  /\ pages = << >>
  /\ batch = << >>
  /\ tasks = << >>
  /\ rows = << >>
  /\ browserOpen = FALSE
  /\ error = "none"
  /\ deleteRequested = FALSE
  /\ batchCount = 0
  /\ fetchLog = << >>
  /\ inserted = {}
  /\ faults = 0
  /\ loadFailed = {}
  /\ mixedBatch = FALSE
  /\ visitedAtBatch = {}
  /\ inFlightAtDelete = {}

\* the variables of the crawl
crawl == <<variant, site, maxDepth, maxPages, pc, visited, queue, pages,
           batch, tasks, rows, browserOpen, error, deleteRequested,
           batchCount, fetchLog, inserted, faults, loadFailed, mixedBatch,
           visitedAtBatch, inFlightAtDelete, status, attempt, thrown>>

NoCall == [fn |-> "none"]

NormInit ==
  /\ NoCrawl
  /\ NoServer
  /\ input \in Urls
  /\ output = NoCall

\* normalizeUrl(item.url, item.url.includes('#/')), as at dispatch and at
\* enqueue
CallNormalizeUrl ==
  /\ output = NoCall
  /\ output' = [fn |-> "normalizeUrl", result |-> CanonicalUrl(input)]
  /\ UNCHANGED <<crawl, server, input>>

\* the URL pushed to the queue is normalized again when it is dispatched
CallNormalizeUrlAgain ==
  /\ output.fn = "normalizeUrl"
  /\ output.result # Null
  /\ output' = [fn |-> "normalizeUrl twice", first |-> output.result,
                 result |-> CanonicalUrl(output.result)]
  /\ UNCHANGED <<crawl, server, input>>

\* normalizeUrl of the Puppeteer crawler
CallPupNormalizeUrl ==
  /\ output = NoCall
  /\ output' = [fn |-> "pupNormalizeUrl", result |-> pupNormalizeUrl(input)]
  /\ UNCHANGED <<crawl, server, input>>

\* the query strings given to a URL
Queries == {<<"p">>, <<"p", "/">>, <<"/", "?", "p">>, << >>}

\* url with the query string '?' + q: before the fragment, or at the end
WithQuery(url, q) ==
  IF IndexOf(url, "#") = 0 THEN url \o <<"?">> \o q
  ELSE SubSeq(url, 1, IndexOf(url, "#") - 1) \o <<"?">> \o q
         \o SubSeq(url, IndexOf(url, "#"), Len(url))

\* the URL has no query string
NoQuery(url) == IndexOf(BeforeFirst(url, "#"), "?") = 0

\* both normalizeUrl functions applied to the input with a query string
CallNormalizeWithQuery(q) ==
  /\ output = NoCall
  /\ NoQuery(input)
  /\ output' = [fn |-> "with query", query |-> q,
                 result |-> CanonicalUrl(WithQuery(input, q)),
                 pup |-> pupNormalizeUrl(WithQuery(input, q))]
  /\ UNCHANGED <<crawl, server, input>>

\* the seed URLs a link is compared with
SeedUrls == {<<o>> : o \in DOMAIN Hostname}

\* sameDomain(normalizedLink, baseUrl)
CallSameDomain(seed) ==
  /\ output = NoCall
  /\ output' = [fn |-> "sameDomain", seed |-> seed,
                 result |-> sameDomain(input, seed)]
  /\ UNCHANGED <<crawl, server, input>>

NormNext ==
  \/ \E seed \in SeedUrls : CallSameDomain(seed)
  \/ \E q \in Queries : CallNormalizeWithQuery(q)
  \/ CallNormalizeUrl
  \/ CallNormalizeUrlAgain
  \/ CallPupNormalizeUrl

NormSpec == NormInit /\ [][NormNext]_vars

\* ------------------------------------------------------------------------
\* The sitemap tree (buildSitemapStructure)
\* ------------------------------------------------------------------------

\* length of the record lists handed to buildSitemapStructure
MaxRecords == 3

\* the canonical URLs of the records: the homepage and three inner pages
PageUrls ==
  {<<A>>, <<A, "/", "a">>, <<A, "/", "a", "/", "b">>, <<A, "/", "c">>}

\* a PageRecord as crawlWebsite pushes it; the title is left out
Records ==
  [url : PageUrls, depth : 0..2,
   parentUrl : {Null, <<A>>, <<A, "/", "a">>}]

\* record lists as a crawl produces them: one record per canonical URL, and
\* a parentUrl that names a record names one of strictly smaller depth; a
\* parentUrl may also name no record (the parent's INSERT failed)
CrawlProduced(l) ==
  /\ \A i, j \in 1..Len(l) : i # j => l[i].url # l[j].url
  /\ \A i, j \in 1..Len(l) :
       l[i].parentUrl = l[j].url => l[j].depth < l[i].depth

\* the lists of n records a crawl produces; each is such a list of n - 1
\* records with one more record
RECURSIVE ListsOf(_)
ListsOf(n) ==
  IF n = 0 THEN {<< >>}
  ELSE {l \in {Append(m, r) : m \in ListsOf(n - 1), r \in Records} :
          CrawlProduced(l)}

RecordLists == UNION {ListsOf(n) : n \in 0..MaxRecords}

\* page.id, the id the INSERT returned for the record: one id per record,
\* written as the position of the record in the list
PageId(index) == <<"page", index>>

\* the id of the synthesized root
RootId == <<"root">>

\* pages.map(...) of the argument: the title clean-up is left out
cleanedPages(pageList) ==
  [i \in 1..Len(pageList) |->
     [id |-> PageId(i - 1), url |-> pageList[i].url, depth |-> pageList[i].depth,
      parentUrl |-> pageList[i].parentUrl]]

\* pathname is '/' and there is no fragment
IsHomepage(p) ==
  LET u == ParseUrl(p.url)
  IN u.ok /\ u.path = <<"/">> /\ u.fragment = << >>

\* cleanedPages.find(...) || cleanedPages[0]
rootPage(cleaned) ==
  IF \E i \in 1..Len(cleaned) : IsHomepage(cleaned[i])
  THEN cleaned[CHOOSE i \in 1..Len(cleaned) :
                 /\ IsHomepage(cleaned[i])
                 /\ \A j \in 1..(i-1) : ~IsHomepage(cleaned[j])]
  ELSE cleaned[1]

\* pageMap.has(url)
pageMapHas(cleaned, url) == \E i \in 1..Len(cleaned) : cleaned[i].url = url

\* pageMap.get(url): a later record of the same url replaces an earlier one
pageMapGet(cleaned, url) ==
  cleaned[CHOOSE i \in 1..Len(cleaned) :
            /\ cleaned[i].url = url
            /\ \A j \in (i+1)..Len(cleaned) : cleaned[j].url # url]

\* page.parentUrl && pageMap.has(page.parentUrl)
HasParent(cleaned, page) ==
  page.parentUrl # Null /\ pageMapHas(cleaned, page.parentUrl)

\* the urls of a sequence of pages
UrlsOf(s) == [i \in 1..Len(s) |-> s[i].url]

\* children with unshift in place of push
childrenOf_Unshift(cleaned, url) ==
  LET s == SelectSeq(cleaned,
                     LAMBDA p : HasParent(cleaned, p) /\ p.parentUrl = url)
  IN [i \in 1..Len(s) |-> s[Len(s) + 1 - i].url]

\* the children array of the node of url after the forEach: the keys of the
\* nodes pushed to it, in the order of the pages
childrenOf(cleaned, url) ==
  UrlsOf(SelectSeq(cleaned,
                   LAMBDA p : HasParent(cleaned, p) /\ p.parentUrl = url))

\* rootNodes without the orphan branch
rootNodes_NoOrphans(cleaned) ==
  LET top == UrlsOf(SelectSeq(cleaned,
                 LAMBDA p : /\ ~HasParent(cleaned, p)
                            /\ \/ p.url = rootPage(cleaned).url
                               \/ p.parentUrl = Null /\ p.depth = 0))
  IN IF top = << >> /\ Len(cleaned) > 0 THEN <<cleaned[1].url>> ELSE top

\* rootNodes after the forEach and the fallback: both else branches push
rootNodes(cleaned) ==
  LET top == UrlsOf(SelectSeq(cleaned, LAMBDA p : ~HasParent(cleaned, p)))
  IN IF top = << >> /\ Len(cleaned) > 0 THEN <<cleaned[1].url>> ELSE top

\* buildNode without the children
buildNode_Leaf(cleaned, url) ==
  LET pageNode == pageMapGet(cleaned, url)
  IN [id |-> pageNode.id, url |-> pageNode.url, depth |-> pageNode.depth,
      children |-> << >>]

\* buildNode(pageMap.get(url)); a node without children has no children
\* property, modelled as the empty sequence
RECURSIVE buildNode(_, _)
buildNode(cleaned, url) ==
  LET pageNode == pageMapGet(cleaned, url)
      ch == childrenOf(cleaned, url)
  IN [id |-> pageNode.id, url |-> pageNode.url, depth |-> pageNode.depth,
      children |-> [i \in 1..Len(ch) |-> buildNode(cleaned, ch[i])]]

\* the first root node is returned whatever the number of root nodes
buildSitemapStructure_FirstRoot(pageList) ==
  IF pageList = Null
  THEN [id |-> RootId, url |-> Null, depth |-> 0, children |-> << >>]
  ELSE buildNode(cleanedPages(pageList), rootNodes(cleanedPages(pageList))[1])

buildSitemapStructure(pageList) ==
  IF pageList = Null
  THEN [id |-> RootId, url |-> Null, depth |-> 0, children |-> << >>]
  ELSE
    LET cleaned == cleanedPages(pageList)
        roots == rootNodes(cleaned)
    IN IF Len(roots) = 1
       THEN buildNode(cleaned, roots[1])
       ELSE [id |-> RootId, url |-> rootPage(cleaned).url, depth |-> 0,
             children |-> [i \in 1..Len(roots) |->
                             buildNode(cleaned, roots[i])]]

TreeInit ==
  /\ NoCrawl
  /\ NoServer
  /\ input \in RecordLists
  /\ output = NoCall

\* const sitemap = buildSitemapStructure(pages) in the worker
CallBuildSitemapStructure ==
  /\ output = NoCall
  /\ output' = [fn |-> "buildSitemapStructure",
                tree |-> buildSitemapStructure(input)]
  /\ UNCHANGED <<crawl, server, input>>

TreeNext == CallBuildSitemapStructure

TreeSpec == TreeInit /\ [][TreeNext]_vars

\* ------------------------------------------------------------------------
\* POST /api/crawl/:jobId/improve, next to the worker of the same job
\* ------------------------------------------------------------------------

\* recommendations one call of processSitemap returns
MaxRecommendations == 1

\* the requests for the one job
Requests == {"r1", "r2"}

\* a request that has not reached the server yet
NewRequest ==
  [pc |-> "select job", seen |-> "none", setAnalysis |-> FALSE, todo |-> 0,
   response |-> 0, restored |-> FALSE, restoreFailed |-> FALSE]

\* the job waits in the queue: its row was inserted with the default status
ImproveInit ==
  /\ NoCrawl
  /\ input = Null
  /\ output = Null
  /\ browserInstance = Null
  /\ db = [crawl_jobs |-> "PENDING", sitemaps |-> FALSE,
           ai_recommendations |-> 0]
  /\ procs = [p \in Requests \cup {"worker"} |->
                IF p = "worker" THEN [pc |-> "start", attempt |-> 1]
                ELSE NewRequest]

ImproveFrame == UNCHANGED <<crawl, input, output, browserInstance>>

\* the processor of the worker: UPDATE ... status = 'CRAWLING'
JobCrawling(ok) ==
  /\ procs["worker"].pc = "start"
  /\ IF ok
     THEN /\ db' = [db EXCEPT !.crawl_jobs = "CRAWLING"]
          /\ procs' = [procs EXCEPT !["worker"].pc = "crawl"]
     ELSE /\ procs' = [procs EXCEPT !["worker"].pc = "catch"]
          /\ UNCHANGED db
  /\ ImproveFrame

\* await crawlWebsite(...) resolves or rejects
JobCrawl(ok) ==
  /\ procs["worker"].pc = "crawl"
  /\ procs' = [procs EXCEPT !["worker"].pc =
                 IF ok THEN "processing" ELSE "catch"]
  /\ UNCHANGED db
  /\ ImproveFrame

\* UPDATE ... status = 'PROCESSING'
JobProcessing(ok) ==
  /\ procs["worker"].pc = "processing"
  /\ IF ok
     THEN /\ db' = [db EXCEPT !.crawl_jobs = "PROCESSING"]
          /\ procs' = [procs EXCEPT !["worker"].pc = "sitemap"]
     ELSE /\ procs' = [procs EXCEPT !["worker"].pc = "catch"]
          /\ UNCHANGED db
  /\ ImproveFrame

\* INSERT INTO sitemaps ... ON CONFLICT (job_id) DO UPDATE
JobSitemap(ok) ==
  /\ procs["worker"].pc = "sitemap"
  /\ IF ok
     THEN /\ db' = [db EXCEPT !.sitemaps = TRUE]
          /\ procs' = [procs EXCEPT !["worker"].pc = "complete"]
     ELSE /\ procs' = [procs EXCEPT !["worker"].pc = "catch"]
          /\ UNCHANGED db
  /\ ImproveFrame

\* UPDATE ... status = 'COMPLETED'
JobCompleted(ok) ==
  /\ procs["worker"].pc = "complete"
  /\ IF ok
     THEN /\ db' = [db EXCEPT !.crawl_jobs = "COMPLETED"]
          /\ procs' = [procs EXCEPT !["worker"].pc = "returned"]
     ELSE /\ procs' = [procs EXCEPT !["worker"].pc = "catch"]
          /\ UNCHANGED db
  /\ ImproveFrame

\* the catch of the processor: UPDATE ... status = 'FAILED', then throw
JobFailed(ok) ==
  /\ procs["worker"].pc = "catch"
  /\ db' = IF ok THEN [db EXCEPT !.crawl_jobs = "FAILED"] ELSE db
  /\ procs' = [procs EXCEPT !["worker"].pc = "thrown"]
  /\ ImproveFrame

\* the queue runs the processor again, attempts: 3
JobRetry ==
  /\ procs["worker"].pc = "thrown"
  /\ procs["worker"].attempt < Attempts
  /\ procs' = [procs EXCEPT !["worker"] =
                 [pc |-> "start", attempt |-> @.attempt + 1]]
  /\ UNCHANGED db
  /\ ImproveFrame

\* the handler leaves the try block with an exception
ToCatch(r) == [procs EXCEPT ![r].pc = "catch"]

\* res.status(code).json(...)
Respond(r, code) == [procs EXCEPT ![r].pc = "responded", ![r].response = code]

\* the statuses the handler lets pass
Improvable == {"COMPLETED", "PROCESSING"}

\* SELECT * FROM crawl_jobs and the test of job.status; the row of the job
\* exists
ImproveSelectJob(r, ok) ==
  /\ procs[r].pc = "select job"
  /\ procs' =
       IF ~ok THEN ToCatch(r)
       ELSE IF db.crawl_jobs \notin Improvable
            THEN [Respond(r, 400) EXCEPT ![r].seen = db.crawl_jobs]
            ELSE [procs EXCEPT ![r].pc = "select sitemap",
                               ![r].seen = db.crawl_jobs]
  /\ UNCHANGED db
  /\ ImproveFrame

\* SELECT original_sitemap FROM sitemaps
ImproveSelectSitemap(r, ok) ==
  /\ procs[r].pc = "select sitemap"
  /\ procs' =
       IF ~ok THEN ToCatch(r)
       ELSE IF ~db.sitemaps THEN Respond(r, 400)
            ELSE [procs EXCEPT ![r].pc = "set analysis"]
  /\ UNCHANGED db
  /\ ImproveFrame

\* UPDATE ... status = 'AI_ANALYSIS'
ImproveSetAnalysis(r, ok) ==
  /\ procs[r].pc = "set analysis"
  /\ IF ok
     THEN /\ db' = [db EXCEPT !.crawl_jobs = "AI_ANALYSIS"]
          /\ procs' = [procs EXCEPT ![r].pc = "processSitemap",
                                    ![r].setAnalysis = TRUE]
     ELSE /\ procs' = ToCatch(r)
          /\ UNCHANGED db
  /\ ImproveFrame

\* await processSitemap(jobId, sitemap): it catches its own errors and then
\* returns no recommendations
ImproveProcessSitemap(r, n) ==
  /\ procs[r].pc = "processSitemap"
  /\ procs' = [procs EXCEPT ![r].pc = "store", ![r].todo = n]
  /\ UNCHANGED db
  /\ ImproveFrame

\* INSERT INTO ai_recommendations, once per recommendation
ImproveStore(r, ok) ==
  /\ procs[r].pc = "store"
  /\ procs[r].todo > 0
  /\ IF ok
     THEN /\ db' = [db EXCEPT !.ai_recommendations = @ + 1]
          /\ procs' = [procs EXCEPT ![r].todo = @ - 1]
     ELSE /\ procs' = ToCatch(r)
          /\ UNCHANGED db
  /\ ImproveFrame

\* UPDATE ... status = 'COMPLETED' and the 200 response
ImproveRestore(r, ok) ==
  /\ procs[r].pc = "store"
  /\ procs[r].todo = 0
  /\ IF ok
     THEN /\ db' = [db EXCEPT !.crawl_jobs = "COMPLETED"]
          /\ procs' = [Respond(r, 200) EXCEPT ![r].restored = TRUE]
     ELSE /\ procs' = ToCatch(r)
          /\ UNCHANGED db
  /\ ImproveFrame

\* the catch without its UPDATE
ImproveCatch_NoRestore(r, ok) ==
  /\ procs[r].pc = "catch"
  /\ procs' = Respond(r, 500)
  /\ UNCHANGED db
  /\ ImproveFrame

\* the catch of the handler: UPDATE ... status = 'COMPLETED', whose failure
\* is ignored, and the 500 response
ImproveCatch(r, ok) ==
  /\ procs[r].pc = "catch"
  /\ IF ok
     THEN /\ db' = [db EXCEPT !.crawl_jobs = "COMPLETED"]
          /\ procs' = [Respond(r, 500) EXCEPT ![r].restored = TRUE]
     ELSE /\ procs' = [Respond(r, 500) EXCEPT ![r].restoreFailed = TRUE]
          /\ UNCHANGED db
  /\ ImproveFrame

ImproveNext ==
  \/ \E ok \in BOOLEAN : JobCrawling(ok)
  \/ \E ok \in BOOLEAN : JobCrawl(ok)
  \/ \E ok \in BOOLEAN : JobProcessing(ok)
  \/ \E ok \in BOOLEAN : JobSitemap(ok)
  \/ \E ok \in BOOLEAN : JobCompleted(ok)
  \/ \E ok \in BOOLEAN : JobFailed(ok)
  \/ JobRetry
  \/ \E r \in Requests, ok \in BOOLEAN : ImproveSelectJob(r, ok)
  \/ \E r \in Requests, ok \in BOOLEAN : ImproveSelectSitemap(r, ok)
  \/ \E r \in Requests, ok \in BOOLEAN : ImproveSetAnalysis(r, ok)
  \/ \E r \in Requests, n \in 0..MaxRecommendations :
       ImproveProcessSitemap(r, n)
  \/ \E r \in Requests, ok \in BOOLEAN : ImproveStore(r, ok)
  \/ \E r \in Requests, ok \in BOOLEAN : ImproveRestore(r, ok)
  \/ \E r \in Requests, ok \in BOOLEAN : ImproveCatch(r, ok)

ImproveSpec == ImproveInit /\ [][ImproveNext]_vars

\* ------------------------------------------------------------------------
\* Two jobs of the worker in the Puppeteer crawlWebsite, sharing the browser
\* ------------------------------------------------------------------------

Jobs == {"j1", "j2"}

\* maxPages of the two jobs
MaxJobPages == 2

\* the url of a page that has not navigated
AboutBlank == <<"about:blank">>

\* the links found on a page: the homepage links to /a on its own host
JobLinks(url) == IF Len(url) = 1 THEN << url \o <<"/", "a">> >> ELSE << >>

\* the state of crawlWebsite after getBrowser has resolved
NewJob(seed) ==
  [pc |-> "loop", baseUrl |-> seed, visited |-> {},
   queue |-> << [url |-> seed, depth |-> 0, parentUrl |-> Null] >>,
   pages |-> << >>, url |-> Null, depth |-> 0, parentUrl |-> Null,
   page |-> 0]

\* the browser was launched by an earlier crawl and has no page open
JobsInit ==
  /\ NoCrawl
  /\ input = Null
  /\ output = Null
  /\ db = Null
  /\ browserInstance = [pages |-> << >>, created |-> 0]
  /\ \E seed \in SeedUrls :
       procs = [j \in Jobs |-> IF j = "j1" THEN NewJob(<<A>>)
                                ELSE NewJob(seed)]

JobsFrame == UNCHANGED <<crawl, input, output, db>>

\* the page a job holds is open in the browser
IsOpen(id) ==
  \E i \in 1..Len(browserInstance.pages) : browserInstance.pages[i].id = id

\* browser.pages() without the page id
ClosePage(id) ==
  [browserInstance EXCEPT
     !.pages = SelectSeq(@, LAMBDA p : p.id # id)]

\* while (queue.length > 0 && pages.length < maxPages): queue.shift(), the
\* visited tests and visited.add
PupJobTake(j) ==
  /\ procs[j].pc = "loop"
  /\ LET c == procs[j]
     IN procs' = [procs EXCEPT ![j] =
          IF c.queue = << >> \/ Len(c.pages) >= MaxJobPages
          THEN [c EXCEPT !.pc = "returned"]
          ELSE IF Head(c.queue).url \in c.visited
                  \/ pupNormalizeUrl(Head(c.queue).url) \in c.visited
               THEN [c EXCEPT !.queue = Tail(@)]
               ELSE [c EXCEPT !.queue = Tail(@),
                              !.visited = @ \cup {Head(c.queue).url,
                                       pupNormalizeUrl(Head(c.queue).url)},
                              !.url = Head(c.queue).url,
                              !.depth = Head(c.queue).depth,
                              !.parentUrl = Head(c.queue).parentUrl,
                              !.pc = "newPage"]]
  /\ UNCHANGED browserInstance
  /\ JobsFrame

\* const page = await browser.newPage()
PupJobNewPage(j) ==
  /\ procs[j].pc = "newPage"
  /\ browserInstance' =
       [pages |-> Append(browserInstance.pages,
                         [id |-> browserInstance.created + 1,
                          url |-> AboutBlank]),
        created |-> browserInstance.created + 1]
  /\ procs' = [procs EXCEPT ![j].page = browserInstance.created + 1,
                            ![j].pc = "goto"]
  /\ JobsFrame

\* the page has the url it was sent to
Navigated(id, url) ==
  [browserInstance EXCEPT
     !.pages = [i \in 1..Len(@) |->
                  IF @[i].id = id THEN [@[i] EXCEPT !.url = url] ELSE @[i]]]

GotoOutcomes == {"ok", "failed", "failed after commit"}

\* page.goto and the work on the loaded page: it succeeds, or throws before
\* or after the page has taken the url; on a closed page it throws
PupJobGoto(j, outcome) ==
  /\ procs[j].pc = "goto"
  /\ IF ~IsOpen(procs[j].page)
     THEN /\ outcome = "failed"
          /\ procs' = [procs EXCEPT ![j].pc = "catch"]
          /\ UNCHANGED browserInstance
     ELSE /\ procs' = [procs EXCEPT ![j].pc =
                         IF outcome = "ok" THEN "close" ELSE "catch"]
          /\ browserInstance' =
               IF outcome = "failed" THEN browserInstance
               ELSE Navigated(procs[j].page, procs[j].url)
  /\ JobsFrame

\* the links of the page that pass the filter, as items
JobChildren(c) ==
  LET links == JobLinks(c.url)
      kept == SelectSeq(links, LAMBDA l :
                pupNormalizeUrl(l) \notin c.visited /\ c.depth < 1)
  IN [i \in 1..Len(kept) |->
        [url |-> pupNormalizeUrl(kept[i]), depth |-> c.depth + 1,
         parentUrl |-> pupNormalizeUrl(c.url)]]

\* await page.close(), pages.push and the links pushed to the queue; on a
\* closed page the close throws
PupJobClosePage(j) ==
  /\ procs[j].pc = "close"
  /\ IF ~IsOpen(procs[j].page)
     THEN /\ procs' = [procs EXCEPT ![j].pc = "catch"]
          /\ UNCHANGED browserInstance
     ELSE /\ browserInstance' = ClosePage(procs[j].page)
          /\ procs' = [procs EXCEPT ![j] =
               [@ EXCEPT !.pc = "loop",
                         !.pages = Append(@, [url |-> pupNormalizeUrl(procs[j].url),
                                              depth |-> procs[j].depth,
                                              parentUrl |-> procs[j].parentUrl]),
                         !.queue = @ \o JobChildren(procs[j])]]
  /\ JobsFrame

\* p.url() === url || p.url().includes(new URL(url).hostname)
MatchesUrl(p, url) ==
  \/ p.url = url
  \/ /\ ParseUrl(p.url).ok
     /\ LET h == Hostname[ParseUrl(url).origin]
            g == Hostname[ParseUrl(p.url).origin]
        IN g = h \/ g = Www(h)

\* the catch of the item: (await browser.pages()).find(...) and
\* currentPage.close()
PupJobCatch(j) ==
  /\ procs[j].pc = "catch"
  /\ LET ps == browserInstance.pages
         found == {i \in 1..Len(ps) : MatchesUrl(ps[i], procs[j].url)}
     IN browserInstance' =
          IF found = {} THEN browserInstance
          ELSE ClosePage(ps[CHOOSE i \in found : \A k \in found : i <= k].id)
  /\ procs' = [procs EXCEPT ![j].pc = "loop"]
  /\ JobsFrame

JobsNext ==
  \/ \E j \in Jobs : PupJobTake(j)
  \/ \E j \in Jobs : PupJobNewPage(j)
  \/ \E j \in Jobs, outcome \in GotoOutcomes : PupJobGoto(j, outcome)
  \/ \E j \in Jobs : PupJobClosePage(j)
  \/ \E j \in Jobs : PupJobCatch(j)

JobsSpec == JobsInit /\ [][JobsNext]_vars

\* ------------------------------------------------------------------------
\* The title of a page (crawlPage and the clean-up in crawlWebsite)
\* ------------------------------------------------------------------------

\* strings are token sequences; the literal titles
Untitled == <<"Untitled">>
Home == <<"Home">>
Page == <<"Page">>

\* the titles for which the clean-up computes a title from the URL
ErrorTitles == {<< >>, <<"ERROR: Error">>, <<"Error">>, <<"ERROR">>}

\* s.replace(/-/g, ' ').replace(/\b\w/g, l => l.toUpperCase()) of one token
HumanizeToken(t) ==
  CASE t = "a" -> "A"
    [] t = "p" -> "P"
    [] t = "my-page" -> "My Page"
    [] OTHER -> t

Humanize(s) == [i \in 1..Len(s) |-> HumanizeToken(s[i])]

\* s.split('/'): the parts of s between the slashes, empty parts included
RECURSIVE Split(_)
Split(s) ==
  IF IndexOf(s, "/") = 0 THEN <<s>>
  ELSE <<SubSeq(s, 1, IndexOf(s, "/") - 1)>>
         \o Split(SubSeq(s, IndexOf(s, "/") + 1, Len(s)))

\* .filter(p => p)
NonEmpty(parts) == SelectSeq(parts, LAMBDA p : p # << >>)

\* [...].pop()
Last(parts) == parts[Len(parts)]

\* x || 'Page'
OrPage(s) == IF s = << >> THEN Page ELSE s

\* what the document of a loaded page holds and how the load went
Documents ==
  [titleText : {<< >>, <<"Shop">>, <<"Error">>},
   h1Text : {<< >>, <<"Offers">>},
   loaded : BOOLEAN,
   evaluated : BOOLEAN]

\* the URLs of the pages whose title is recorded
TitleUrls ==
  {<<A>>, <<A, "/", "a">>, <<A, "/", "a", "/">>,
   <<A, "/", "a", "/", "my-page">>, <<A, "/", "#", "/", "my-page">>,
   <<A, "/", "a", "#", "p">>, <<A, "/", "#", "/">>}

\* the title crawlPage returns: titleText || h1Text || "Untitled"; when
\* evaluate throws, page.title() || "Untitled"; when the load throws,
\* "Untitled"
crawlPageTitle(doc) ==
  IF ~doc.loaded THEN Untitled
  ELSE IF ~doc.evaluated
       THEN (IF doc.titleText # << >> THEN doc.titleText ELSE Untitled)
       ELSE IF doc.titleText # << >> THEN doc.titleText
            ELSE IF doc.h1Text # << >> THEN doc.h1Text
                 ELSE Untitled

\* let cleanedTitle = title; if (!cleanedTitle || ...) { ... }
cleanedTitle(title, url) ==
  IF title \notin ErrorTitles THEN title
  ELSE IF ~ParseUrl(url).ok THEN Page
  ELSE
    LET urlObj == ParseUrl(url)
        hash == urlObj.fragment
        pathParts == NonEmpty(Split(urlObj.path))
    IN IF hash # << >> /\ hash[1] = "/"
       THEN OrPage(Humanize(Last(Split(Tail(hash)))))
       ELSE IF hash # << >> THEN OrPage(Humanize(hash))
       ELSE IF pathParts # << >> THEN Humanize(Last(pathParts))
       ELSE Home

TitleInit ==
  /\ NoCrawl
  /\ NoServer
  /\ input \in [doc : Documents, url : TitleUrls]
  /\ output = NoCall

\* const { title, links } = await crawlPage(context, url)
CallCrawlPage ==
  /\ output = NoCall
  /\ output' = [fn |-> "crawlPage", title |-> crawlPageTitle(input.doc)]
  /\ UNCHANGED <<crawl, server, input>>

\* the clean-up and the INSERT of the title
CallCleanTitle ==
  /\ output.fn = "crawlPage"
  /\ output' = [fn |-> "cleanedTitle",
                title |-> cleanedTitle(output.title, input.url)]
  /\ UNCHANGED <<crawl, server, input>>

TitleNext == CallCrawlPage \/ CallCleanTitle

TitleSpec == TitleInit /\ [][TitleNext]_vars

\* ------------------------------------------------------------------------
\* Navigation of the Puppeteer crawler to one page
\* ------------------------------------------------------------------------

\* const navigationStrategies = [...], by waitUntil
navigationStrategies == <<"networkidle2", "domcontentloaded", "load">>

\* how page.goto ends under each strategy
GotoResults == {"ok"} \cup ErrorKinds

NavInit ==
  /\ NoCrawl
  /\ NoServer
  /\ input \in [1..Len(navigationStrategies) -> GotoResults]
  /\ output = [fn |-> "goto", pc |-> "navigate", tried |-> << >>,
               navigationSucceeded |-> FALSE, cause |-> "none"]

\* the first failing strategy throws
TryStrategy_NoFallback ==
  /\ output.pc = "navigate"
  /\ LET k == Len(output.tried) + 1
         tried == Append(output.tried, navigationStrategies[k])
     IN output' =
          IF input[k] = "ok"
          THEN [output EXCEPT !.tried = tried, !.navigationSucceeded = TRUE,
                              !.pc = "process"]
          ELSE [output EXCEPT !.tried = tried, !.pc = "catch",
                              !.cause = input[k]]
  /\ UNCHANGED <<crawl, server, input>>

\* one round of for (const strategy of navigationStrategies): page.goto
\* resolves and the loop breaks, or it throws and the error is swallowed
\* unless the strategy is the last one
TryStrategy ==
  /\ output.pc = "navigate"
  /\ LET k == Len(output.tried) + 1
         tried == Append(output.tried, navigationStrategies[k])
     IN output' =
          IF input[k] = "ok"
          THEN [output EXCEPT !.tried = tried, !.navigationSucceeded = TRUE,
                              !.pc = "process"]
          ELSE IF k = Len(navigationStrategies)
               THEN [output EXCEPT !.tried = tried, !.pc = "catch",
                                   !.cause = input[k]]
               ELSE [output EXCEPT !.tried = tried]
  /\ UNCHANGED <<crawl, server, input>>

\* the work on the loaded page: it goes through, or the bot-protection check
\* or another step throws
ProcessPage(ok) ==
  /\ output.pc = "process"
  /\ output' = IF ok THEN [output EXCEPT !.pc = "processed"]
               ELSE [output EXCEPT !.pc = "catch", !.cause = "blocked"]
  /\ UNCHANGED <<crawl, server, input>>

\* the catch of the item stores the error row
CatchItem ==
  /\ output.pc = "catch"
  /\ output' = [output EXCEPT !.pc = "failed"]
  /\ UNCHANGED <<crawl, server, input>>

NavNext ==
  \/ TryStrategy
  \/ \E ok \in BOOLEAN : ProcessPage(ok)
  \/ CatchItem

NavSpec == NavInit /\ [][NavNext]_vars

\* ------------------------------------------------------------------------
\* POST /api/crawl
\* ------------------------------------------------------------------------

\* length of the websites array of a request
MaxWebsites == 2

\* the websites arrays of a request; a missing or empty array is << >>
WebsiteLists == UNION {[1..n -> {Domain}] : n \in 0..MaxWebsites}

\* the handler of a request before its first step; i is the website the
\* loop is at
NewStart(websites) ==
  [pc |-> "validate", websites |-> websites, i |-> 1, response |-> 0]

\* the jobs table and the queue are empty
StartInit ==
  /\ NoCrawl
  /\ input = Null
  /\ output = Null
  /\ browserInstance = Null
  /\ db = [jobRows |-> {}, queued |-> {}]
  /\ procs \in [Requests -> {NewStart(w) : w \in WebsiteLists}]

StartFrame == UNCHANGED <<crawl, input, output, browserInstance>>

\* uuidv4() for website i of request r
JobId(r, i) == <<r, i>>

\* if (!websites || !Array.isArray(websites) || websites.length === 0)
StartValidate(r) ==
  /\ procs[r].pc = "validate"
  /\ procs' = IF procs[r].websites = << >> THEN Respond(r, 400)
              ELSE [procs EXCEPT ![r].pc = "insert"]
  /\ UNCHANGED db
  /\ StartFrame

\* INSERT INTO crawl_jobs for the next website, or res.json after the last
StartInsert(r, ok) ==
  /\ procs[r].pc = "insert"
  /\ IF procs[r].i > Len(procs[r].websites)
     THEN /\ ok
          /\ procs' = Respond(r, 200)
          /\ UNCHANGED db
     ELSE IF ok
          THEN /\ db' = [db EXCEPT !.jobRows = @ \cup {JobId(r, procs[r].i)}]
               /\ procs' = [procs EXCEPT ![r].pc = "add"]
          ELSE /\ procs' = ToCatch(r)
               /\ UNCHANGED db
  /\ StartFrame

\* await crawlQueue.add('crawl', ...) and jobIds.push
StartQueueAdd(r, ok) ==
  /\ procs[r].pc = "add"
  /\ IF ok
     THEN /\ db' = [db EXCEPT !.queued = @ \cup {JobId(r, procs[r].i)}]
          /\ procs' = [procs EXCEPT ![r].pc = "insert", ![r].i = @ + 1]
     ELSE /\ procs' = ToCatch(r)
          /\ UNCHANGED db
  /\ StartFrame

\* res.status(500).json(...)
StartCatch(r) ==
  /\ procs[r].pc = "catch"
  /\ procs' = Respond(r, 500)
  /\ UNCHANGED db
  /\ StartFrame

StartNext ==
  \/ \E r \in Requests : StartValidate(r)
  \/ \E r \in Requests, ok \in BOOLEAN : StartInsert(r, ok)
  \/ \E r \in Requests, ok \in BOOLEAN : StartQueueAdd(r, ok)
  \/ \E r \in Requests : StartCatch(r)

StartSpec == StartInit /\ [][StartNext]_vars

\* ------------------------------------------------------------------------
\* getBrowser of the Puppeteer crawler under concurrent crawlWebsite calls
\* ------------------------------------------------------------------------

\* concurrency: parseInt(process.env.CRAWL_CONCURRENCY || '3')
WorkerConcurrency == 3

\* the crawlWebsite calls the worker runs at a time
Crawls == 1..WorkerConcurrency

\* the server has started: let browserInstance = null
BrowserInit ==
  /\ NoCrawl
  /\ input = Null
  /\ output = Null
  /\ db = Null
  /\ browserInstance = Null
  /\ procs = [c \in Crawls |->
                [pc |-> "getBrowser", invoked |-> FALSE, browser |-> Null]]

BrowserFrame == UNCHANGED <<crawl, input, output, db>>

\* the browser process launched for the call c
Launched(c) == [id |-> c, pages |-> << >>, created |-> 0]

\* browser = await getBrowser(), up to the await in it: the instance is
\* returned, or puppeteer.launch is invoked in the same turn
GetBrowserCall(c) ==
  /\ procs[c].pc = "getBrowser"
  /\ procs' = [procs EXCEPT ![c] =
        IF browserInstance # Null
        THEN [@ EXCEPT !.pc = "returned", !.browser = browserInstance]
        ELSE [@ EXCEPT !.pc = "launching", !.invoked = TRUE]]
  /\ UNCHANGED browserInstance
  /\ BrowserFrame

\* puppeteer.launch resolves: browserInstance = ...; return browserInstance,
\* or it rejects and so does crawlWebsite
LaunchSettled(c, ok) ==
  /\ procs[c].pc = "launching"
  /\ procs[c].invoked
  /\ IF ok
     THEN /\ browserInstance' = Launched(c)
          /\ procs' = [procs EXCEPT ![c].pc = "returned",
                                    ![c].browser = Launched(c)]
     ELSE /\ procs' = [procs EXCEPT ![c].pc = "rejected"]
          /\ UNCHANGED browserInstance
  /\ BrowserFrame

BrowserNext ==
  \/ \E c \in Crawls : GetBrowserCall(c)
  \/ \E c \in Crawls, ok \in BOOLEAN : LaunchSettled(c, ok)

BrowserSpec == BrowserInit /\ [][BrowserNext]_vars

\* ------------------------------------------------------------------------
\* Properties
\* ------------------------------------------------------------------------

Playwright == variant = "playwright"

\* the elements of a sequence are pairwise distinct
NoDuplicates(s) == \A i, j \in 1..Len(s) : i # j => s[i] # s[j]

\* the items of the queue are in non-decreasing depth order
DepthSorted(q) == \A i, j \in 1..Len(q) : i < j => q[i].depth <= q[j].depth

\* the callback of item i went past the filter: its page is being or was loaded
Dispatched(i) == tasks[i].pc \notin {"new", "skipped"}

\* C1: in the Playwright crawler the visited set never holds more than
\* maxPages URLs.
C1_VisitedWithinMaxPages ==
  Playwright => Cardinality(visited) <= maxPages

\* C2: in the Playwright crawler a page is loaded and a PageRecord inserted
\* at most once per canonical URL; of two items of one batch with the same
\* canonical URL at most one goes past the filter.
C2_OncePerCanonicalUrl ==
  Playwright =>
    /\ NoDuplicates(fetchLog)
    /\ NoDuplicates([k \in 1..Len(rows) |-> rows[k].url])
    /\ NoDuplicates([k \in 1..Len(pages) |-> pages[k].url])
    /\ \A i, j \in 1..Len(tasks) :
         (i # j /\ CanonicalUrl(batch[i].url) = CanonicalUrl(batch[j].url))
           => ~(Dispatched(i) /\ Dispatched(j))

\* a batch held two items with the same canonical URL; one was dropped and
\* the other one was loaded and stored
C2_Witness ==
  /\ Playwright
  /\ \E i, j \in 1..Len(tasks) :
       /\ i # j
       /\ CanonicalUrl(batch[i].url) = CanonicalUrl(batch[j].url)
       /\ tasks[i].pc = "done"
       /\ tasks[j].pc = "skipped"
       /\ \E k \in 1..Len(rows) : rows[k].url = tasks[i].url

\* C3: every item in the queue or in a batch has a depth in 0..maxDepth and
\* every PageRecord has a depth of at most maxDepth.
C3_DepthWithinMaxDepth ==
  /\ \A k \in 1..Len(queue) : queue[k].depth \in 0..maxDepth
  /\ \A k \in 1..Len(batch) : batch[k].depth \in 0..maxDepth
  /\ \A k \in 1..Len(rows) : rows[k].depth <= maxDepth
  /\ \A k \in 1..Len(pages) : pages[k].depth <= maxDepth

\* a page at the depth limit was recorded, after links were followed
C3_Witness ==
  /\ maxDepth >= 2
  /\ \E k \in 1..Len(rows) : rows[k].depth = maxDepth

\* C4: a PageRecord whose parentUrl is the url of another PageRecord of the
\* crawl is one level deeper than that record.
C4_ChildOneDeeper ==
  \A r, p \in 1..Len(rows) :
    (rows[r].parentUrl # Null /\ rows[r].parentUrl = rows[p].url)
      => rows[r].depth = rows[p].depth + 1

\* a grandchild of the root and its parent were both recorded
C4_Witness ==
  \E r, p \in 1..Len(rows) :
    /\ rows[r].parentUrl = rows[p].url
    /\ rows[p].depth = 1
    /\ rows[r].depth = 2

\* C5: a failing page load changes nothing but the failing item, which goes
\* on to be recorded: the loop position, the queue, the escaped error and
\* all other items are untouched; and a crawl that returns has issued the
\* INSERT of every page it started to load.
C5_FailureIsolated ==
  /\ [](pc = "done" => \A k \in 1..Len(fetchLog) : fetchLog[k] \in inserted)
  /\ [][loadFailed' \ loadFailed # {} =>
          /\ pc' = pc
          /\ error' = error
          /\ queue' = queue
          /\ batch' = batch
          /\ \A i \in 1..Len(tasks) :
               IF tasks[i].url \in loadFailed' \ loadFailed
               THEN tasks'[i].pc \in {"storing", "errorRow"}
               ELSE tasks'[i] = tasks[i]]_vars

\* the crawl returned although a page load failed, and a page that loaded
\* was recorded after the failed one
C5_Witness ==
  /\ pc = "done"
  /\ \E i, j \in 1..Len(rows) :
       /\ i < j
       /\ rows[i].url \in loadFailed
       /\ rows[j].url \notin loadFailed

\* C6: in the Playwright crawler the PageRecord of a page whose load failed
\* has a status code other than 200, and no queue item has it as parent.
C6_FailedPageStatus ==
  Playwright =>
    /\ \A k \in 1..Len(rows) :
         rows[k].url \in loadFailed => rows[k].status # 200
    /\ \A k \in 1..Len(queue) : queue[k].parentUrl \notin loadFailed

\* C7: once DELETE was issued for a job being crawled, no new batch is
\* formed, no pending page load completes with a result, and no PageRecord
\* is inserted for a page whose load was pending at the time.
C7_AbortStopsCrawl ==
  [][deleteRequested =>
       /\ batchCount' = batchCount
       /\ \A i \in 1..Len(tasks) :
            tasks[i].pc = "fetching" => tasks'[i].links = << >>
       /\ \A k \in 1..Len(rows') : rows'[k].url \notin inFlightAtDelete]_vars

\* C8: no URL is added to the visited set while a page load of the current
\* batch is pending.
C8_VisitedOnlyBetweenBatches ==
  [][(\E i \in 1..Len(tasks) : tasks[i].pc = "fetching")
       => visited' = visited]_vars

\* C9: when a batch is taken, no two queue items have the same canonical
\* URL and no queue item's canonical URL is visited.
C9_QueueDeduplicated ==
  (Playwright /\ pc = "loop" /\ LoopCondition) =>
    /\ \A i, j \in 1..Len(queue) :
         i # j => CanonicalUrl(queue[i].url) # CanonicalUrl(queue[j].url)
    /\ \A i \in 1..Len(queue) : CanonicalUrl(queue[i].url) \notin visited

\* item i of the batch is to be dropped: invalid, too deep, visited when
\* the batch was formed, or preceded in the batch by a kept item with the
\* same canonical URL
Redundant(i) ==
  \/ CanonicalUrl(batch[i].url) = Null
  \/ batch[i].depth > maxDepth
  \/ CanonicalUrl(batch[i].url) \in visitedAtBatch
  \/ \E j \in 1..(i-1) :
       /\ CanonicalUrl(batch[j].url) = CanonicalUrl(batch[i].url)
       /\ batch[j].depth <= maxDepth

\* C9 (amended): deduplication happens at dispatch: of the items of a
\* batch exactly those are dropped that are invalid, too deep, visited
\* before the batch or repeated within it; every other item is loaded.
C9_DeduplicatedAtDispatch ==
  Playwright =>
    \A i \in 1..Len(tasks) :
      tasks[i].pc # "new" => (tasks[i].pc = "skipped" <=> Redundant(i))

\* a batch held a repeated URL and a URL visited before the batch; both
\* were dropped and another item of the batch was loaded
C9_Witness ==
  /\ Playwright
  /\ \E i, j, k \in 1..Len(tasks) :
       /\ tasks[i].pc = "skipped"
       /\ CanonicalUrl(batch[i].url) \in visitedAtBatch
       /\ tasks[j].pc = "skipped"
       /\ CanonicalUrl(batch[j].url) \notin visitedAtBatch
       /\ tasks[k].pc = "done"

Pending == {i \in 1..Len(tasks) : tasks[i].pc \notin {"skipped", "done", "threw"}}

\* the callbacks of the current batch whose page load is in flight
InFlight == {i \in 1..Len(tasks) : tasks[i].pc = "fetching"}

\* C11: in the Playwright crawler a batch holds at most CONCURRENCY = 6 items,
\* so at most 6 page loads are in flight, and the next batch is taken from
\* the queue only when no callback of the previous batch is still pending.
C11_BoundedConcurrency ==
  /\ [](Playwright => /\ Len(batch) <= CONCURRENCY
                      /\ Len(tasks) = Len(batch)
                      /\ Cardinality(InFlight) <= CONCURRENCY)
  /\ [][(Playwright /\ batchCount' # batchCount) => Pending = {}]_vars

\* a full batch of 6 was cut from a longer queue, one of its page loads is in
\* flight, and it is not the first batch
C11_Witness ==
  /\ Playwright
  /\ batchCount > 1
  /\ Len(batch) = CONCURRENCY
  /\ Len(queue) > 0
  /\ InFlight # {}

\* the page cap of the loop test: visited.size in the Playwright crawler,
\* pages.length in the Puppeteer crawler
CapReached ==
  IF Playwright THEN Cardinality(visited) >= maxPages
  ELSE Len(pages) >= maxPages

\* C12: when crawlWebsite has terminated after its browser session was set
\* up, by returning or by rejecting, the queue is empty or the page cap has
\* been reached.
C12_TerminatesAtEmptyOrCap ==
  (pc \in {"done", "rejected"} /\ error \notin {"launch", "context"}) =>
    (Len(queue) = 0 \/ CapReached)

\* C13: when crawlWebsite has returned or rejected, the browser it launched
\* is closed, whichever exit path was taken.
C13_BrowserReleased ==
  pc \in {"done", "rejected"} => ~browserOpen

\* the exceptions C14 is about: those that escape crawlWebsite, the build of
\* the sitemap or its INSERT
AbortErrors == CrawlErrors \cup {"sitemap"}

ItemErrors == {"newPage", "onProgress"}

\* C15: in the Playwright crawler no failure in the processing of one batch
\* item makes crawlWebsite reject or the job be marked FAILED.
C15_ItemErrorsContained ==
  (Playwright /\ error \in ItemErrors) =>
    (pc # "rejected" /\ status # "FAILED")

\* the URLs of the rows inserted by this run
RowUrls == {rows[k].url : k \in 1..Len(rows)}

\* C16: in the Playwright crawler a failing INSERT of a page leaves pages,
\* visited, the position of crawlWebsite and its pending exception as they
\* are and the callback goes on to report progress; the returned list holds
\* exactly the pages whose INSERT succeeded, and a URL whose INSERT failed
\* stays in visited and is loaded only once.
C16_StoreFailureIsolated ==
  /\ [](Playwright =>
         /\ Len(pages) = Len(rows)
         /\ \A k \in 1..Len(pages) : pages[k].url = rows[k].url
         /\ \A u \in inserted \ RowUrls :
              /\ u \in visited
              /\ Cardinality({k \in 1..Len(fetchLog) : fetchLog[k] = u}) = 1)
  /\ [][Playwright =>
          \A i \in 1..Len(tasks) :
            (tasks[i].pc = "storing" /\ tasks'[i].pc # "storing" /\ rows' = rows) =>
              /\ tasks'[i].pc = "reporting"
              /\ pages' = pages
              /\ visited' = visited
              /\ pc' = pc
              /\ error' = error]_vars

\* the INSERT of the home page failed, the crawl went on to store one of
\* its children and returned
C16_Witness ==
  /\ Playwright
  /\ pc = "done"
  /\ baseUrl \in inserted \ RowUrls
  /\ \E k \in 1..Len(pages) : pages[k].parentUrl = baseUrl

\* C17 as stated: once an attempt has failed and the job is marked FAILED,
\* the processor is not run for that job again.
C17_NoRetryAfterFailed ==
  [][(Playwright /\ pc = "thrown" /\ status = "FAILED") =>
       (pc' = "thrown" /\ attempt' = attempt)]_vars

\* C17 amended: crawlWebsite is entered only at the start of an attempt,
\* with an empty visited set, so one attempt runs the traversal at most
\* once; a new attempt starts only after the processor has thrown, and the
\* queue runs at most Attempts = 3 attempts of a job; a job whose processor
\* has returned is not run again.
C17_RetryOnlyByQueue ==
  /\ [](attempt \in 1..Attempts)
  /\ [][(pc' = "launch" /\ pc # "launch") =>
          (pc = "wStart" /\ visited = {} /\ batchCount = 0)]_vars
  /\ [][attempt' # attempt =>
          (pc = "thrown" /\ attempt' = attempt + 1 /\ pc' = "wStart")]_vars
  /\ [][pc = "completed" => pc' = "completed"]_vars

\* the third attempt of a job has failed and the job is marked FAILED
C17_Witness ==
  /\ Playwright
  /\ attempt = Attempts
  /\ pc = "thrown"
  /\ status = "FAILED"

Puppeteer == variant = "puppeteer"

\* the status a failed page is to be recorded with
ExpectedStatus(cause) ==
  CASE cause = "timeout" -> 408
    [] cause = "blocked" -> 403
    [] OTHER -> 0

\* the callback of the Puppeteer item is in its catch block after a failed
\* page load
PupLoadFailed ==
  /\ Puppeteer
  /\ pc = "batch"
  /\ tasks[1].pc = "errorRow"
  /\ tasks[1].url \in loadFailed

\* C18: in the Puppeteer crawler the row of an item whose page load failed
\* has status 408 after a timeout, 403 after a block and 0 after any other
\* error, and the failed item adds nothing to the queue or to pages.
C18_FailedItemStatus ==
  /\ [](Puppeteer =>
         /\ \A k \in 1..Len(queue) : queue[k].parentUrl \notin loadFailed
         /\ \A k \in 1..Len(pages) : pages[k].url \notin loadFailed
         /\ \A k \in 1..Len(rows) :
              rows[k].url \in loadFailed => rows[k].status \in {408, 403, 0})
  /\ [][(Puppeteer /\ loadFailed' # loadFailed) =>
          (queue' = queue /\ rows' = rows /\ pages' = pages)]_vars
  /\ [][PupLoadFailed =>
          /\ queue' = queue
          /\ pages' = pages
          /\ rows' # rows =>
               rows' = Append(rows, [url |-> tasks[1].url,
                                     depth |-> batch[1].depth,
                                     parentUrl |-> batch[1].parentUrl,
                                     status |-> ExpectedStatus(tasks[1].cause)])]_vars

\* one run recorded a page that timed out with 408 and a blocked page
\* with 403
C18_Witness ==
  /\ Puppeteer
  /\ \E k \in 1..Len(rows) : rows[k].url \in loadFailed /\ rows[k].status = 408
  /\ \E k \in 1..Len(rows) : rows[k].url \in loadFailed /\ rows[k].status = 403

\* C19: in the Puppeteer crawler the rows inserted for a job, those of
\* failed pages included, are never more than maxPages.
C19_RowsWithinMaxPages ==
  Puppeteer => Len(rows) <= maxPages

\* item i of the batch is invalid, already visited or too deep
Droppable(i) ==
  \/ CanonicalUrl(batch[i].url) = Null
  \/ CanonicalUrl(batch[i].url) \in visited
  \/ batch[i].depth > maxDepth

\* C20: in the Playwright crawler the callback of an item that is invalid,
\* already visited or deeper than maxDepth returns at the filter: the step
\* leaves visited, the started page loads, the issued INSERTs, the rows,
\* pages and the queue as they are, and the callback does nothing
\* afterwards.
C20_DroppedItemNoEffect ==
  /\ [](Playwright =>
         \A i \in 1..Len(tasks) :
           tasks[i].pc = "skipped" => tasks[i] = [IdleTask EXCEPT !.pc = "skipped"])
  /\ [][Playwright =>
          \A i \in DOMAIN tasks \cap DOMAIN tasks' :
            /\ (tasks[i].pc = "new" /\ tasks'[i].pc # "new" /\ Droppable(i)) =>
                 /\ tasks'[i].pc = "skipped"
                 /\ visited' = visited
                 /\ fetchLog' = fetchLog
                 /\ inserted' = inserted
                 /\ rows' = rows
                 /\ pages' = pages
                 /\ queue' = queue
            /\ tasks[i].pc = "skipped" => tasks'[i] = tasks[i]]_vars

\* an item within maxDepth whose URL was already visited was dropped while
\* another item of its batch is being loaded
C20_Witness ==
  /\ Playwright
  /\ \E i, j \in 1..Len(tasks) :
       /\ tasks[i].pc = "skipped"
       /\ batch[i].depth <= maxDepth
       /\ CanonicalUrl(batch[i].url) \in visited
       /\ tasks[j].pc = "fetching"

\* C21: normalizing the result of the Playwright normalization again
\* returns the same string.
C21_NormalizeIdempotent ==
  output.fn = "normalizeUrl twice" => output.result = output.first

\* the fragment of a URL string, with its '#'; empty when there is none
FragmentOf(url) == HashOf(ParseUrl(url))

\* C22: the result of the Playwright normalization carries a fragment
\* exactly when the fragment of the input begins with '#/', and a fragment
\* it carries begins with '#/'.
C22_HashRouteKept ==
  (output.fn = "normalizeUrl" /\ output.result # Null) =>
    /\ FragmentOf(output.result) # << >> <=>
         StartsWith(FragmentOf(input), HashSlash)
    /\ FragmentOf(output.result) # << >> =>
         StartsWith(FragmentOf(output.result), HashSlash)

\* C23: the result of the Puppeteer normalization of a URL carries the
\* fragment of the input when that fragment begins with '#/' and no
\* fragment otherwise.
C23_PupHashRouteOnly ==
  (output.fn = "pupNormalizeUrl" /\ ParseUrl(input).ok) =>
    FragmentOf(output.result) =
      (IF StartsWith(FragmentOf(input), HashSlash)
       THEN FragmentOf(input) ELSE << >>)

\* the path a canonical URL is to have: the trailing '/' stripped, except
\* from the path '/'
CanonicalPath(path) ==
  IF path = <<"/">> THEN path ELSE StripTrailingSlash(path)

\* C24: the path of the result of the Playwright normalization is the path
\* of the input without its trailing '/', the path '/' being kept, also
\* when a preserved '#/' fragment follows, and a preserved fragment is the
\* fragment of the input.
C24_TrailingSlashOfPath ==
  (output.fn = "normalizeUrl" /\ output.result # Null) =>
    /\ ParseUrl(output.result).path = CanonicalPath(ParseUrl(input).path)
    /\ StartsWith(FragmentOf(input), HashSlash) =>
         FragmentOf(output.result) = FragmentOf(input)

\* C25: both normalizations of a URL with a query string return what they
\* return for the URL without the query string.
C25_QueryStripped ==
  output.fn = "with query" =>
    /\ output.result = CanonicalUrl(input)
    /\ output.pup = pupNormalizeUrl(input)

\* a URL with a path and a preserved fragment was normalized with a
\* non-empty query string
C25_Witness ==
  /\ output.fn = "with query"
  /\ output.query # << >>
  /\ output.result # Null
  /\ FragmentOf(output.result) # << >>
  /\ ParseUrl(input).path # <<"/">>

\* two hostnames are equal, or equal after a 'www.' prefix is added to one
SameHostModuloWww(g, h) == g = h \/ g = Www(h) \/ Www(g) = h

\* C26: sameDomain(a, b) is true exactly when both URLs parse and their
\* hostnames are equal modulo a 'www.' prefix on either side.
C26_SameDomainModuloWww ==
  output.fn = "sameDomain" =>
    (output.result <=>
       /\ ParseUrl(input).ok
       /\ SameHostModuloWww(Hostname[ParseUrl(input).origin],
                            Hostname[ParseUrl(output.seed).origin]))

\* the tree returned by a call of buildSitemapStructure
Built == output.fn = "buildSitemapStructure"

\* the nodes of a tree, and of a sequence of trees, in preorder
RECURSIVE TreeNodes(_), ForestNodes(_)
TreeNodes(t) == <<t>> \o ForestNodes(t.children)
ForestNodes(f) ==
  IF f = << >> THEN << >> ELSE TreeNodes(Head(f)) \o ForestNodes(Tail(f))

\* the root was synthesized, it stands for no record
IsVirtual(t) == t.id = RootId

\* the nodes that stand for records
PageNodes(t) ==
  IF IsVirtual(t) THEN ForestNodes(t.children) ELSE TreeNodes(t)

\* the node stands for record i of the input
NodeOf(n, i) ==
  n.id = PageId(i - 1) /\ n.url = input[i].url /\ n.depth = input[i].depth

\* C27: for a record list with pairwise distinct URLs in which each
\* resolvable parentUrl names a record of strictly smaller depth,
\* buildSitemapStructure returns a finite tree in which every input record
\* is exactly one node, no node stands for anything else, and no URL occurs
\* twice.
C27_EveryRecordOneNode ==
  Built /\ CrawlProduced(input) =>
    LET nodes == PageNodes(output.tree)
    IN /\ Len(nodes) = Len(input)
       /\ \A i \in 1..Len(input) :
            Cardinality({k \in 1..Len(nodes) : NodeOf(nodes[k], i)}) = 1
       /\ NoDuplicates(UrlsOf(nodes))

\* a tree was built from three records of which one is a grandchild, given
\* before its parent
C27_Witness ==
  /\ Built
  /\ Len(input) = MaxRecords
  /\ \E i, j, k \in 1..Len(input) :
       /\ i < j
       /\ input[i].parentUrl = input[j].url
       /\ input[j].parentUrl = input[k].url

\* the records without a resolvable parent, as indices in input order
RECURSIVE TopLevelFrom(_)
TopLevelFrom(i) ==
  IF i > Len(input) THEN << >>
  ELSE IF \/ input[i].parentUrl = Null
          \/ \A j \in 1..Len(input) : input[j].url # input[i].parentUrl
       THEN <<i>> \o TopLevelFrom(i + 1)
       ELSE TopLevelFrom(i + 1)

TopLevel == TopLevelFrom(1)

\* C28: buildSitemapStructure returns a single root: when exactly one record
\* is top-level its node is the tree itself, otherwise the root is a
\* synthesized node whose children are the nodes of all top-level records
\* in input order.
C28_SingleRoot ==
  Built =>
    IF Len(TopLevel) = 1
    THEN NodeOf(output.tree, TopLevel[1])
    ELSE /\ IsVirtual(output.tree)
         /\ Len(output.tree.children) = Len(TopLevel)
         /\ \A k \in 1..Len(TopLevel) :
              NodeOf(output.tree.children[k], TopLevel[k])

\* two records without a parent were wrapped in a synthesized root
C28_Witness ==
  /\ Built
  /\ IsVirtual(output.tree)
  /\ \E i, j \in 1..Len(input) :
       i # j /\ input[i].parentUrl = Null /\ input[j].parentUrl = Null

\* record i names a parent that is not in the input
Orphan(i) ==
  /\ input[i].parentUrl # Null
  /\ \A j \in 1..Len(input) : input[j].url # input[i].parentUrl

\* the top-level nodes of a tree
TopNodes(t) == IF IsVirtual(t) THEN t.children ELSE <<t>>

\* C29: a record whose parentUrl is absent from the input is not dropped: its
\* node is a top-level node of the output.
C29_OrphanTopLevel ==
  Built =>
    \A i \in 1..Len(input) :
      Orphan(i) =>
        \E k \in 1..Len(TopNodes(output.tree)) :
          NodeOf(TopNodes(output.tree)[k], i)

\* an orphan that is neither the first record nor of depth 0 was built into
\* a tree next to the homepage
C29_Witness ==
  /\ Built
  /\ \E i, j \in 1..Len(input) :
       /\ j < i
       /\ Orphan(i)
       /\ input[i].depth > 0
       /\ input[j].url = <<A>>
       /\ input[j].parentUrl = Null

\* the chain / , /a (parent /), /a/b (parent /a)
Chain ==
  << [url |-> <<A>>, depth |-> 0, parentUrl |-> Null],
     [url |-> <<A, "/", "a">>, depth |-> 1, parentUrl |-> <<A>>],
     [url |-> <<A, "/", "a", "/", "b">>, depth |-> 2,
      parentUrl |-> <<A, "/", "a">>] >>

\* root / with the single child /a having the single child /a/b
ChainTree ==
  [id |-> PageId(0), url |-> <<A>>, depth |-> 0, children |->
    << [id |-> PageId(1), url |-> <<A, "/", "a">>, depth |-> 1, children |->
         << [id |-> PageId(2), url |-> <<A, "/", "a", "/", "b">>,
             depth |-> 2, children |-> << >>] >>] >>]

C31_OnlyCompletedImproved ==
  \A r \in Requests :
    /\ procs[r].setAnalysis => procs[r].seen = "COMPLETED"
    /\ /\ procs[r].pc = "responded"
       /\ procs[r].seen \notin {"none", "COMPLETED"}
       /\ procs[r].response # 500
       => procs[r].response = 400

\* the page a job is working on is open; a job between two items has none
HoldsOpenPage(j) ==
  procs[j].pc \in {"goto", "close"} /\ IsOpen(procs[j].page)

\* C32: concurrent crawl jobs do not contaminate each other: a step of one
\* job leaves the visited set, the queue, the record list and the open
\* browser page of every other job as they were.
C32_JobsIsolated ==
  [][\A j, k \in Jobs :
       j # k /\ procs'[j] # procs[j] =>
         /\ procs'[k] = procs[k]
         /\ HoldsOpenPage(k)' = HoldsOpenPage(k)]_vars

\* the title the resolution order gives: the title element, else the first
\* heading, else the humanized last non-empty path segment, else 'Home' for
\* the root path
ResolvedTitle(doc, url) ==
  IF doc.titleText # << >> THEN doc.titleText
  ELSE IF doc.h1Text # << >> THEN doc.h1Text
  ELSE LET parts == NonEmpty(Split(ParseUrl(url).path))
       IN IF parts # << >> THEN Humanize(Last(parts)) ELSE Home

\* C33: the title recorded for a loaded page follows the resolution order
\* title element, first heading, humanized last non-empty path segment,
\* 'Home' for the root path; a page with neither a title element nor a
\* heading is recorded with its humanized last path segment or 'Home'.
C33_TitleResolution ==
  /\ output.fn = "cleanedTitle"
  /\ input.doc.loaded
  /\ input.doc.evaluated
  => output.title = ResolvedTitle(input.doc, input.url)

\* the strategies were tried in the order of the list
TriedInOrder ==
  /\ Len(output.tried) <= Len(navigationStrategies)
  /\ \A k \in 1..Len(output.tried) : output.tried[k] = navigationStrategies[k]

\* every strategy tried but the last one failed
EarlierFailed == \A k \in 1..(Len(output.tried) - 1) : input[k] # "ok"

OnSeedHost(url) ==
  /\ ParseUrl(url).ok
  /\ Hostname[ParseUrl(url).origin] = Hostname[ParseUrl(baseUrl).origin]

\* C35: in the Playwright crawler every URL that is enqueued, fetched or
\* recorded has the hostname of the seed.
C35_SeedDomainOnly ==
  Playwright =>
    /\ \A k \in 1..Len(queue) : OnSeedHost(queue[k].url)
    /\ \A k \in 1..Len(batch) : OnSeedHost(batch[k].url)
    /\ \A k \in 1..Len(fetchLog) : OnSeedHost(fetchLog[k])
    /\ \A k \in 1..Len(rows) : OnSeedHost(rows[k].url)
    /\ \A k \in 1..Len(pages) : OnSeedHost(pages[k].url)

\* the homepage of "nav", which links to b.com and has an unparsable href,
\* and a page it links to were recorded
C35_Witness ==
  /\ Playwright
  /\ site = "nav"
  /\ \E k \in 1..Len(pages) : pages[k].url = baseUrl
  /\ \E k \in 1..Len(pages) : pages[k].parentUrl = baseUrl

\* the request has set AI_ANALYSIS and awaits processSitemap
Improving(r) == procs[r].setAnalysis /\ procs[r].pc = "processSitemap"

\* C36: two improve requests for one job never run AI processing at the same
\* time.
C36_OneImproveAtATime ==
  \A r, q \in Requests : r # q => ~(Improving(r) /\ Improving(q))

\* C37: whenever the status of a job is COMPLETED, a sitemap row of the job
\* has been stored.
C37_CompletedHasSitemap ==
  db.crawl_jobs = "COMPLETED" => db.sitemaps

\* C38, as stated: a request that set the status to AI_ANALYSIS has set it
\* back to COMPLETED when it responds.
C38_AnalysisAlwaysRestored ==
  \A r \in Requests :
    procs[r].pc = "responded" /\ procs[r].setAnalysis => procs[r].restored

\* C38: a request that set the status to AI_ANALYSIS has, when it responds,
\* set it back to COMPLETED, unless the UPDATE in its catch block failed.
C38_RestoredUnlessUpdateFails ==
  \A r \in Requests :
    procs[r].pc = "responded" /\ procs[r].setAnalysis =>
      procs[r].restored \/ procs[r].restoreFailed

\* storing a recommendation failed and the catch block restored COMPLETED
C38_Witness ==
  \E r \in Requests :
    /\ procs[r].pc = "responded"
    /\ procs[r].setAnalysis
    /\ procs[r].todo > 0
    /\ procs[r].response = 500
    /\ procs[r].restored

\* the job rows and queue entries a request has added
RowsOf(r) == {id \in db.jobRows : id[1] = r}
QueuedOf(r) == {id \in db.queued : id[1] = r}

\* C39: POST /api/crawl is all-or-nothing: a request answered with an error
\* status has inserted no job row and added no queue entry, and every job
\* row of an answered request has a matching queue entry.
C39_AllOrNothing ==
  \A r \in Requests :
    procs[r].pc = "responded" =>
      /\ procs[r].response >= 400 => RowsOf(r) = {} /\ QueuedOf(r) = {}
      /\ RowsOf(r) = QueuedOf(r)

\* C40: under any interleaving of concurrent crawlWebsite calls,
\* puppeteer.launch is invoked at most once and all callers of getBrowser
\* receive the same instance.
C40_OneBrowser ==
  /\ Cardinality({c \in Crawls : procs[c].invoked}) <= 1
  /\ \A c, d \in Crawls :
       procs[c].pc = "returned" /\ procs[d].pc = "returned" =>
         procs[c].browser = procs[d].browser

====
